---------------------------- MODULE Spec2Model ----------------------------
(***************************************************************************)
(* A model of scripts/markdown-tools.py: the loader, the edit kernel, the  *)
(* finalizer and the three entry points md_stat, md_validate and md_apply. *)
(*                                                                         *)
(* Text is a sequence of Unicode code points, a file is a sequence of      *)
(* bytes, a line buffer is a sequence of texts.  SHA-256 is modelled as a  *)
(* collision-free digest: the digest of b is the record [digest_of |-> b]. *)
(***************************************************************************)
EXTENDS Integers, Sequences, FiniteSets, TLC

VARIABLES
  file,     \* the bytes of the Markdown file on disk
  pc,       \* "idle", or "write" while md_apply is between its read and its write
  known,    \* the contentSha256 the caller last obtained from md_stat / md_validate
  pend,     \* the md_apply call in progress: its request and its computed result
  ret,      \* the record returned by the last completed call, with its request
  editor,   \* a MarkdownEditor: buffer, diagnostics
  edit_ret  \* the last apply_edit on editor: the edit, the buffer before, the status

vars == <<file, pc, known, pend, ret, editor, edit_ret>>

---------------------------------------------------------------------------
(* Bounds of the model. *)

\* longest line buffer drawn for the edit kernel (lines)
MaxLines == 3
\* largest line and column number drawn for a replace_range address
MaxPos == 4
\* most lines of the text of a file drawn for md_apply
MaxFileLines == 2
\* most lines of a document drawn for the parser and the validator
MaxDocLines == 4
\* most characters of a heading text drawn for normalize_heading
MaxHeadingLen == 3

---------------------------------------------------------------------------
(* Code points and bytes. *)

LF == 10
CR == 13
\* the three bytes of the UTF-8 byte order mark, b'\xef\xbb\xbf'
BOM == <<239, 187, 191>>

Min(a, b) == IF a < b THEN a ELSE b
Max(a, b) == IF a > b THEN a ELSE b

\* Python's s[a:b] on a str or a list: negative indices count from the end,
\* indices past either end are clamped, an empty slice when a >= b.
PyIndex(i, n) == IF i < 0 THEN Max(i + n, 0) ELSE Min(i, n)
PySlice(s, a, b) == SubSeq(s, PyIndex(a, Len(s)) + 1, PyIndex(b, Len(s)))
PyFrom(s, a) == SubSeq(s, PyIndex(a, Len(s)) + 1, Len(s))
PyTo(s, b) == SubSeq(s, 1, PyIndex(b, Len(s)))

StartsWith(s, p) == Len(s) >= Len(p) /\ SubSeq(s, 1, Len(p)) = p
EndsWith(s, p) == Len(s) >= Len(p) /\ SubSeq(s, Len(s) - Len(p) + 1, Len(s)) = p
Contains(s, p) == \E i \in 1..(Len(s) - Len(p) + 1) : SubSeq(s, i, i + Len(p) - 1) = p

\* str.split(sep): the pieces between the non-overlapping occurrences of sep,
\* scanned left to right; always at least one piece.
RECURSIVE SplitFrom(_, _, _, _)
SplitFrom(s, sep, i, cur) ==
  IF i > Len(s) THEN <<cur>>
  ELSE IF i + Len(sep) - 1 <= Len(s) /\ SubSeq(s, i, i + Len(sep) - 1) = sep
       THEN <<cur>> \o SplitFrom(s, sep, i + Len(sep), <<>>)
       ELSE SplitFrom(s, sep, i + 1, Append(cur, s[i]))
Split(s, sep) == SplitFrom(s, sep, 1, <<>>)

\* sep.join(parts)
RECURSIVE Join(_, _)
Join(parts, sep) ==
  IF parts = <<>> THEN <<>>
  ELSE IF Len(parts) = 1 THEN parts[1]
  ELSE parts[1] \o sep \o Join(Tail(parts), sep)

---------------------------------------------------------------------------
(* Codecs: bytes.decode and str.encode for 'utf-8', 'utf-8-sig', 'latin-1'. *)

IsCont(b) == 128 <= b /\ b <= 191

\* The length of the well-formed UTF-8 sequence starting at b[i], 0 if none
\* (sequences of up to three bytes; a four-byte lead is not drawn).
Utf8SeqLen(b, i) ==
  IF b[i] < 128 THEN 1
  ELSE IF 194 <= b[i] /\ b[i] <= 223 /\ i + 1 <= Len(b) /\ IsCont(b[i + 1]) THEN 2
  ELSE IF 224 <= b[i] /\ b[i] <= 239 /\ i + 2 <= Len(b)
          /\ IsCont(b[i + 1]) /\ IsCont(b[i + 2])
          /\ (b[i] = 224 => b[i + 1] >= 160)
          /\ (b[i] = 237 => b[i + 1] <= 159) THEN 3
  ELSE 0

RECURSIVE Utf8ValidFrom(_, _)
Utf8ValidFrom(b, i) ==
  IF i > Len(b) THEN TRUE
  ELSE LET n == Utf8SeqLen(b, i) IN n > 0 /\ Utf8ValidFrom(b, i + n)
Utf8Valid(b) == Utf8ValidFrom(b, 1)

RECURSIVE Utf8DecodeFrom(_, _)
Utf8DecodeFrom(b, i) ==
  IF i > Len(b) THEN <<>>
  ELSE LET n == Utf8SeqLen(b, i)
           cp == IF n = 1 THEN b[i]
                 ELSE IF n = 2 THEN (b[i] - 192) * 64 + (b[i + 1] - 128)
                 ELSE (b[i] - 224) * 4096 + (b[i + 1] - 128) * 64 + (b[i + 2] - 128)
       IN <<cp>> \o Utf8DecodeFrom(b, i + n)
Utf8Decode(b) == Utf8DecodeFrom(b, 1)

Utf8EncodeChar(cp) ==
  IF cp < 128 THEN <<cp>>
  ELSE IF cp < 2048 THEN <<192 + (cp \div 64), 128 + (cp % 64)>>
  ELSE <<224 + (cp \div 4096), 128 + ((cp \div 64) % 64), 128 + (cp % 64)>>

RECURSIVE Utf8Encode(_)
Utf8Encode(s) == IF s = <<>> THEN <<>> ELSE Utf8EncodeChar(Head(s)) \o Utf8Encode(Tail(s))

\* str.encode(encoding): ok = FALSE stands for UnicodeEncodeError.
encode(s, encoding) ==
  IF encoding = "utf-8" THEN [ok |-> TRUE, bytes |-> Utf8Encode(s)]
  ELSE IF encoding = "utf-8-sig" THEN [ok |-> TRUE, bytes |-> BOM \o Utf8Encode(s)]
  ELSE IF \A i \in 1..Len(s) : s[i] < 256 THEN [ok |-> TRUE, bytes |-> s]
  ELSE [ok |-> FALSE, bytes |-> <<>>]

\* hashlib.sha256(raw_bytes).hexdigest()
sha256(b) == [digest_of |-> b]
\* the digest "000...0", which no file of the model has
ZeroSha == [digest_of |-> <<256>>]
\* the value of contentSha256 in a record that carries none
NoSha == [digest_of |-> <<-1>>]

---------------------------------------------------------------------------
(* MarkdownDocument.load, without the structural index. *)

\* ok = FALSE stands for the IOError load raises when decoding fails.
load(raw_bytes) ==
  LET bom == StartsWith(raw_bytes, BOM)
      body == IF bom THEN SubSeq(raw_bytes, 4, Len(raw_bytes)) ELSE raw_bytes
      valid == Utf8Valid(body)
      encoding == IF bom THEN "utf-8-sig" ELSE IF valid THEN "utf-8" ELSE "latin-1"
      content == IF valid THEN Utf8Decode(body) ELSE body
      crlf == Contains(content, <<CR, LF>>)
  IN IF bom /\ ~valid
     THEN [ok |-> FALSE, encoding |-> "utf-8-sig", eol |-> "LF", content |-> <<>>,
           lines |-> <<>>, sha256 |-> NoSha]
     ELSE [ok |-> TRUE, encoding |-> encoding,
           eol |-> IF crlf THEN "CRLF" ELSE "LF",
           content |-> content,
           lines |-> IF crlf THEN Split(content, <<CR, LF>>) ELSE Split(content, <<LF>>),
           sha256 |-> sha256(raw_bytes)]

IsSpace(c) == c \in {32, 9, 10, 11, 12, 13, 28, 29, 30, 31, 133, 160}

\* str.strip()
RECURSIVE Strip(_)
Strip(s) ==
  IF s # <<>> /\ IsSpace(s[1]) THEN Strip(Tail(s))
  ELSE IF s # <<>> /\ IsSpace(s[Len(s)]) THEN Strip(SubSeq(s, 1, Len(s) - 1))
  ELSE s

---------------------------------------------------------------------------
(* MarkdownDocument._parse_structure.  The tokens are those MarkdownIt()   *)
(* gives, with its default "commonmark" preset, for documents made of ATX  *)
(* and setext headings, fenced code blocks, "---" rules, paragraphs and    *)
(* blank lines, none of them indented.  The preset has no table rule, so   *)
(* no table_open token is ever produced.                                   *)

\* the lines markdown-it sees: "\r\n" and "\r" are line ends, and a final
\* line end opens no further line
RECURSIVE md_normalize(_)
md_normalize(s) ==
  IF s = <<>> THEN <<>>
  ELSE IF Len(s) >= 2 /\ s[1] = CR /\ s[2] = LF THEN <<LF>> \o md_normalize(SubSeq(s, 3, Len(s)))
  ELSE IF s[1] = CR THEN <<LF>> \o md_normalize(Tail(s))
  ELSE <<s[1]>> \o md_normalize(Tail(s))

md_lines(content) ==
  LET src == md_normalize(content)
      parts == Split(src, <<LF>>)
  IN IF src = <<>> THEN <<>>
     ELSE IF EndsWith(src, <<LF>>) THEN SubSeq(parts, 1, Len(parts) - 1)
     ELSE parts

\* the character of the fence a line opens: "`" or "~", or 0
fence_open(line) ==
  IF StartsWith(line, <<96, 96, 96>>) THEN 96
  ELSE IF StartsWith(line, <<126, 126, 126>>) THEN 126
  ELSE 0

\* the line closes a fence of three characters c
fence_close(line, c) ==
  LET t == Strip(line)
  IN /\ StartsWith(line, <<c, c, c>>)
     /\ \A k \in 1..Len(t) : t[k] = c

\* the level of the ATX heading on the line: one to six "#" followed by a
\* space or the end of the line; 0 if the line is no heading
atx_level(line) ==
  LET hashes == CHOOSE k \in 0..Len(line) :
                  /\ \A j \in 1..k : line[j] = 35
                  /\ k = Len(line) \/ line[k + 1] # 35
  IN IF hashes \in 1..6 /\ (hashes = Len(line) \/ line[hashes + 1] \in {32, 9})
     THEN hashes ELSE 0

atx_text(line) == Strip(SubSeq(line, atx_level(line) + 1, Len(line)))

\* the level of the setext heading the line underlines: 1 for "=", 2 for "-"
setext_level(line) ==
  LET t == Strip(line)
  IN IF t # <<>> /\ line[1] = 61 /\ (\A k \in 1..Len(t) : t[k] = 61) THEN 1
     ELSE IF t # <<>> /\ line[1] = 45 /\ (\A k \in 1..Len(t) : t[k] = 45) THEN 2
     ELSE 0

\* a thematic break: three or more "-"
is_hr(line) ==
  LET t == Strip(line)
  IN Len(t) >= 3 /\ \A k \in 1..Len(t) : t[k] = 45

\* the block tokens from the 0-based line i on: the heading_open tokens as
\* [level, text, line] and the fence tokens as [start_line, end_line] (the
\* token's map).  fence is <<>> outside a fence and <<character, first line>>
\* inside one; para is -1 or the first line of the paragraph being read.
RECURSIVE md_blocks(_, _, _, _, _)
md_blocks(lines, i, fence, para, acc) ==
  IF i >= Len(lines)
  THEN IF fence # <<>>
       THEN [acc EXCEPT !.fences = Append(@, [start_line |-> fence[2], end_line |-> Len(lines)])]
       ELSE acc
  ELSE
  LET line == lines[i + 1]
  IN
  IF fence # <<>>
  THEN IF fence_close(line, fence[1])
       THEN md_blocks(lines, i + 1, <<>>, -1,
                      [acc EXCEPT !.fences = Append(@, [start_line |-> fence[2], end_line |-> i + 1])])
       ELSE md_blocks(lines, i + 1, fence, -1, acc)
  ELSE IF para >= 0 /\ setext_level(line) > 0
  THEN md_blocks(lines, i + 1, <<>>, -1,
                 [acc EXCEPT !.headings =
                    Append(@, [level |-> setext_level(line),
                               text |-> Strip(Join(SubSeq(lines, para + 1, i), <<LF>>)),
                               line |-> para])])
  ELSE IF fence_open(line) # 0
  THEN md_blocks(lines, i + 1, <<fence_open(line), i>>, -1, acc)
  ELSE IF atx_level(line) > 0
  THEN md_blocks(lines, i + 1, <<>>, -1,
                 [acc EXCEPT !.headings =
                    Append(@, [level |-> atx_level(line), text |-> atx_text(line), line |-> i])])
  ELSE IF Strip(line) = <<>> \/ is_hr(line)
  THEN md_blocks(lines, i + 1, <<>>, -1, acc)
  ELSE md_blocks(lines, i + 1, <<>>, IF para >= 0 THEN para ELSE i, acc)

\* md.parse(self.content)
md_parse(content) ==
  md_blocks(md_lines(content), 0, <<>>, -1, [headings |-> <<>>, fences |-> <<>>])

\* \w of re with re.UNICODE, for the code points up to U+017F and the
\* combining dot above U+0307, which is no word character
IsWord(c) ==
  \/ c \in 48..57 \/ c \in 65..90 \/ c \in 97..122 \/ c = 95
  \/ c \in {170, 178, 179, 181, 185, 186, 188, 189, 190}
  \/ (c \in 192..383 /\ c \notin {215, 247})

\* the lowercase of a character whose lowercase is one character, for the
\* code points up to U+017F
Lower(c) ==
  IF c \in 65..90 \/ (c \in 192..222 /\ c # 215) THEN c + 32
  ELSE IF c = 376 THEN 255
  ELSE IF \/ (c \in 256..311 /\ c % 2 = 0 /\ c # 304)
          \/ (c \in 313..328 /\ c % 2 = 1)
          \/ (c \in 330..375 /\ c % 2 = 0)
          \/ (c \in 377..382 /\ c % 2 = 1)
  THEN c + 1
  ELSE c

\* str.lower: U+0130 becomes "i" followed by U+0307
RECURSIVE str_lower(_)
str_lower(s) ==
  IF s = <<>> THEN <<>>
  ELSE (IF s[1] = 304 THEN <<105, 775>> ELSE <<Lower(s[1])>>) \o str_lower(Tail(s))

\* re.sub(r'\s+', ' ', text)
RECURSIVE collapse_space(_)
collapse_space(s) ==
  IF s = <<>> THEN <<>>
  ELSE IF IsSpace(s[1])
  THEN IF Len(s) >= 2 /\ IsSpace(s[2]) THEN collapse_space(Tail(s))
       ELSE <<32>> \o collapse_space(Tail(s))
  ELSE <<s[1]>> \o collapse_space(Tail(s))

\* normalize_heading: backticks, the emphasis markers * _ ~ and every
\* character that is no word character, space or hyphen are removed, runs of
\* spaces become one space, the text is lowercased and stripped
normalize_heading(text) ==
  LET kept == SelectSeq(text, LAMBDA c : c \notin {42, 95, 126}
                                         /\ (IsWord(c) \/ IsSpace(c) \/ c = 45))
      collapsed == collapse_space(kept)
  IN Strip(str_lower(collapsed))

\* create_section_id: the first 16 hex digits of the SHA-256 of "path:line"
create_section_id(heading_path, line) == [id_of |-> <<heading_path, line>>]

\* Section(...) as _parse_structure builds it for a heading taken from the
\* stack
Section(ancestors, closing, end_line) ==
  LET heading_path == [k \in 1..Len(ancestors) |-> ancestors[k].text] \o <<closing.text>>
  IN [heading_path |-> heading_path,
      canonical_heading_path |->
        [k \in 1..Len(heading_path) |-> normalize_heading(heading_path[k])],
      section_id |-> create_section_id(heading_path, closing.line),
      level |-> closing.level,
      start_line |-> closing.line,
      end_line |-> end_line,
      heading_line |-> closing.line]

\* mutant: a heading ends only the headings of a deeper level
RECURSIVE close_sections_deeper(_, _, _, _)
close_sections_deeper(heading_stack, sections, level, end_line) ==
  IF heading_stack # <<>> /\ heading_stack[Len(heading_stack)].level > level
  THEN LET rest == SubSeq(heading_stack, 1, Len(heading_stack) - 1)
       IN close_sections_deeper(rest,
            Append(sections, Section(rest, heading_stack[Len(heading_stack)], end_line)),
            level, end_line)
  ELSE [heading_stack |-> heading_stack, sections |-> sections]

\* "while heading_stack and heading_stack[-1][0] >= level": the headings
\* that end are popped and appended to the sections
RECURSIVE close_sections(_, _, _, _)
close_sections(heading_stack, sections, level, end_line) ==
  IF heading_stack # <<>> /\ heading_stack[Len(heading_stack)].level >= level
  THEN LET rest == SubSeq(heading_stack, 1, Len(heading_stack) - 1)
       IN close_sections(rest,
            Append(sections, Section(rest, heading_stack[Len(heading_stack)], end_line)),
            level, end_line)
  ELSE [heading_stack |-> heading_stack, sections |-> sections]

\* the loop over the heading_open tokens, then "Add final sections"
RECURSIVE build_sections(_, _, _, _)
build_sections(headings, heading_stack, sections, line_count) ==
  IF headings = <<>>
  THEN close_sections(heading_stack, sections, 0, line_count - 1).sections
  ELSE LET h == Head(headings)
           closed == close_sections(heading_stack, sections, h.level, h.line - 1)
       IN build_sections(Tail(headings), Append(closed.heading_stack, h),
                         closed.sections, line_count)

---------------------------------------------------------------------------
(* YAML front matter.  A mapping is the sequence of its [key, value] pairs *)
(* in insertion order, as a Python dict keeps them; a value is a text or a *)
(* list of texts: [kind |-> "str", text |-> t] or [kind |-> "list", items  *)
(* |-> ts].  PyYAML is taken as installed (YAML_AVAILABLE).                *)

\* the index of the first ": " of the line, or 0
colon_at(line) ==
  IF \E k \in 1..Len(line) - 1 : line[k] = 58 /\ line[k + 1] = 32
  THEN CHOOSE k \in 1..Len(line) - 1 :
         /\ line[k] = 58 /\ line[k + 1] = 32
         /\ \A j \in 1..k - 1 : ~(line[j] = 58 /\ line[j + 1] = 32)
  ELSE 0

is_list_item(line) == StartsWith(line, <<45, 32>>)
is_list_key(line) == Len(line) >= 2 /\ line[Len(line)] = 58 /\ line[1] # 45

\* yaml.safe_load of block-style lines "key: text", "key:" and "- item";
\* ok = FALSE stands for yaml.YAMLError
RECURSIVE yaml_load_lines(_, _)
yaml_load_lines(lines, acc) ==
  IF lines = <<>> THEN [ok |-> TRUE, value |-> acc]
  ELSE LET line == Head(lines)
       IN IF is_list_item(line)
          THEN IF acc # <<>> /\ acc[Len(acc)].value.kind = "list"
               THEN yaml_load_lines(Tail(lines),
                      [acc EXCEPT ![Len(acc)].value.items =
                         Append(@, SubSeq(line, 3, Len(line)))])
               ELSE [ok |-> FALSE, value |-> <<>>]
          ELSE IF is_list_key(line)
          THEN yaml_load_lines(Tail(lines),
                 Append(acc, [key |-> SubSeq(line, 1, Len(line) - 1),
                              value |-> [kind |-> "list", items |-> <<>>]]))
          ELSE IF colon_at(line) > 1
          THEN yaml_load_lines(Tail(lines),
                 Append(acc, [key |-> SubSeq(line, 1, colon_at(line) - 1),
                              value |-> [kind |-> "str",
                                         text |-> SubSeq(line, colon_at(line) + 2, Len(line))]]))
          ELSE [ok |-> FALSE, value |-> <<>>]

yaml_safe_load(lines) == yaml_load_lines(lines, <<>>)

\* a < b for str: code point by code point
RECURSIVE TextLess(_, _)
TextLess(a, b) ==
  IF b = <<>> THEN FALSE
  ELSE IF a = <<>> THEN TRUE
  ELSE IF a[1] # b[1] THEN a[1] < b[1]
  ELSE TextLess(Tail(a), Tail(b))

\* sorted(mapping.items()): yaml.dump sorts the keys (sort_keys=True is its
\* default)
RECURSIVE sorted_items(_)
sorted_items(fm) ==
  IF fm = <<>> THEN <<>>
  ELSE LET least == CHOOSE k \in 1..Len(fm) :
                      \A j \in 1..Len(fm) : j # k => TextLess(fm[k].key, fm[j].key)
       IN <<fm[least]>> \o sorted_items(SubSeq(fm, 1, least - 1) \o SubSeq(fm, least + 1, Len(fm)))

\* the lines of one "key: value" in block style
item_lines(item) ==
  IF item.value.kind = "str" THEN <<item.key \o <<58, 32>> \o item.value.text>>
  ELSE IF item.value.items = <<>> THEN <<item.key \o <<58, 32, 91, 93>>>>
  ELSE <<item.key \o <<58>>>>
       \o [k \in 1..Len(item.value.items) |-> <<45, 32>> \o item.value.items[k]]

RECURSIVE concat_lines(_)
concat_lines(ls) == IF ls = <<>> THEN <<>> ELSE Head(ls) \o concat_lines(Tail(ls))

\* yaml.dump(fm, default_flow_style=False, allow_unicode=True)
\*   .rstrip('\n').split('\n')
yaml_dump_lines(fm) ==
  IF fm = <<>> THEN <<<<123, 125>>>>
  ELSE LET items == sorted_items(fm)
       IN concat_lines([k \in 1..Len(items) |-> item_lines(items[k])])

\* the limit of _extract_front_matter's search for the closing "---"
FrontMatterSearchLimit == 50

\* MarkdownDocument._extract_front_matter, called when the content starts
\* with "---\n" or "---\r\n"
extract_front_matter(content, lines) ==
  LET none == [front_matter |-> <<>>, front_matter_lines |-> <<>>]
      dashes == <<45, 45, 45>>
      closing == {i \in 1..Min(Len(lines), FrontMatterSearchLimit) - 1 :
                    Strip(lines[i + 1]) = dashes}
  IN IF ~(StartsWith(content, dashes \o <<LF>>) \/ StartsWith(content, dashes \o <<CR, LF>>))
     THEN none
     ELSE IF ~(lines[1] = dashes \/ lines[1] = dashes \o <<CR>>) THEN none
     ELSE IF closing = {} THEN none
     ELSE LET i == CHOOSE c \in closing : \A d \in closing : c <= d
              loaded == yaml_safe_load(SubSeq(lines, 2, i))
          IN IF loaded.ok
             THEN [front_matter |-> loaded.value, front_matter_lines |-> <<0, i>>]
             ELSE none

\* MarkdownDocument._parse_structure: the sections, the code blocks, the
\* tables and the front matter of a loaded document
parse_structure(content, lines) ==
  LET tokens == md_parse(content)
      fm == extract_front_matter(content, lines)
  IN [sections |-> build_sections(tokens.headings, <<>>, <<>>, Len(lines)),
      code_blocks |-> tokens.fences,
      tables |-> <<>>,
      front_matter |-> fm.front_matter,
      front_matter_lines |-> fm.front_matter_lines]

---------------------------------------------------------------------------
(* MarkdownEditor. *)

\* MarkdownEditor.__init__; doc is the structural index of the document
MarkdownEditor(doc) ==
  [buffer |-> doc.lines, diagnostics |-> <<>>, matches |-> <<>>,
   doc |-> parse_structure(doc.content, doc.lines)]

\* an edit that returns False after appending a diagnostic
Fail(ed, code) ==
  [status |-> "fail",
   editor |-> [ed EXCEPT !.diagnostics = Append(ed.diagnostics, code)]]
\* an edit that returns True
Done(ed, buffer) == [status |-> "ok", editor |-> [ed EXCEPT !.buffer = buffer]]
\* an edit that raises (KeyError on a missing field)
Raise(ed) == [status |-> "raise", editor |-> ed]

\* An edit is a record with the field op and the fields of its operation; a
\* field the caller left out is absent from the record.  A range is the
\* record [sl, sc, el, ec]: range.start.line, .start.col, .end.line, .end.col.
Has(edit, f) == f \in DOMAIN edit

\* mutant: the lines of a multi-line range are joined with "\r\n"
current_text_crlf(buffer, range) ==
  IF range.sl = range.el THEN PySlice(buffer[range.sl + 1], range.sc, range.ec)
  ELSE Join(<<PyFrom(buffer[range.sl + 1], range.sc)>>
            \o SubSeq(buffer, range.sl + 2, range.el)
            \o <<PyTo(buffer[range.el + 1], range.ec)>>, <<CR, LF>>)

\* "Extract current text" of _apply_replace_range, for lines of the buffer
current_text(buffer, range) ==
  IF range.sl = range.el THEN PySlice(buffer[range.sl + 1], range.sc, range.ec)
  ELSE Join(<<PyFrom(buffer[range.sl + 1], range.sc)>>
            \o SubSeq(buffer, range.sl + 2, range.el)
            \o <<PyTo(buffer[range.el + 1], range.ec)>>, <<LF>>)

\* MarkdownEditor._apply_replace_range
apply_replace_range(ed, edit) ==
  IF ~Has(edit, "range") \/ ~Has(edit, "replacement") THEN Raise(ed)
  ELSE
  LET buffer == ed.buffer
      replacement == edit.replacement
      sl == edit.range.sl
      sc == edit.range.sc
      el == edit.range.el
      ec == edit.range.ec
  IN
  IF sl < 0 \/ sl >= Len(buffer) THEN Fail(ed, "OUT_OF_RANGE")
  ELSE IF el < 0 \/ el >= Len(buffer) THEN Fail(ed, "OUT_OF_RANGE")
  ELSE
  LET start_line == buffer[sl + 1]
      end_line == buffer[el + 1]
  IN
  IF Has(edit, "expectedText") /\ current_text(buffer, edit.range) # edit.expectedText
  THEN Fail(ed, "PRECONDITION_FAILED")
  ELSE IF sl = el
  THEN Done(ed, [buffer EXCEPT
                   ![sl + 1] = PyTo(start_line, sc) \o replacement \o PyFrom(start_line, ec)])
  ELSE Done(ed, PyTo(buffer, sl)
                \o <<PyTo(start_line, sc) \o replacement \o PyFrom(end_line, ec)>>
                \o PyFrom(buffer, el + 1))

\* mutant: of several sections that match, the first is returned
get_section_by_path_first(doc, heading_path, include_subsections) ==
  LET normalized_search_path ==
        [k \in 1..Len(heading_path) |-> normalize_heading(heading_path[k])]
      hit(section) ==
        \/ section.heading_path = heading_path
        \/ section.canonical_heading_path = normalized_search_path
      matches == SelectSeq(doc.sections, hit)
  IN IF Len(matches) = 0 THEN [found |-> FALSE, error_code |-> "SECTION_NOT_FOUND"]
     ELSE [found |-> TRUE, section |-> matches[1]]

\* MarkdownDocument.get_section_by_path: the section, or the error code
get_section_by_path(doc, heading_path, include_subsections) ==
  LET normalized_search_path ==
        [k \in 1..Len(heading_path) |-> normalize_heading(heading_path[k])]
      hit(section) ==
        \/ section.heading_path = heading_path
        \/ section.canonical_heading_path = normalized_search_path
        \/ /\ include_subsections
           /\ Len(section.canonical_heading_path) > Len(normalized_search_path)
           /\ SubSeq(section.canonical_heading_path, 1, Len(normalized_search_path))
                = normalized_search_path
      matches == SelectSeq(doc.sections, hit)
  IN IF Len(matches) = 0 THEN [found |-> FALSE, error_code |-> "SECTION_NOT_FOUND"]
     ELSE IF Len(matches) > 1 THEN [found |-> FALSE, error_code |-> "AMBIGUOUS_HEADING"]
     ELSE [found |-> TRUE, section |-> matches[1]]

\* MarkdownDocument.get_section_by_id
get_section_by_id(doc, section_id) ==
  LET matches == SelectSeq(doc.sections, LAMBDA section : section.section_id = section_id)
  IN IF matches = <<>> THEN [found |-> FALSE, error_code |-> "SECTION_NOT_FOUND"]
     ELSE [found |-> TRUE, section |-> matches[1]]

\* MarkdownDocument.is_in_code_block
is_in_code_block(doc, line) ==
  \E k \in 1..Len(doc.code_blocks) :
    doc.code_blocks[k].start_line <= line /\ line < doc.code_blocks[k].end_line

\* MarkdownDocument.is_in_table
is_in_table(doc, line) ==
  \E k \in 1..Len(doc.tables) :
    doc.tables[k].start_line <= line /\ line < doc.tables[k].end_line

\* edit.get(field, default)
Get(edit, f, default) == IF Has(edit, f) THEN edit[f] ELSE default

\* Regular expressions.  A pattern of the model is a text whose characters
\* stand for themselves, except, when it is not literal, "." for any
\* character; re.compile fails on a pattern whose parentheses do not balance
\* or that starts with a quantifier.
RECURSIVE paren_depth_ok(_, _)
paren_depth_ok(pattern, depth) ==
  IF pattern = <<>> THEN depth = 0
  ELSE IF pattern[1] = 40 THEN paren_depth_ok(Tail(pattern), depth + 1)
  ELSE IF pattern[1] = 41 THEN depth > 0 /\ paren_depth_ok(Tail(pattern), depth - 1)
  ELSE paren_depth_ok(Tail(pattern), depth)

\* re.compile(pattern, regex_flags) does not raise re.error
re_compiles(pattern, literal) ==
  \/ literal
  \/ /\ paren_depth_ok(pattern, 0)
     /\ (pattern = <<>> \/ pattern[1] \notin {42, 43, 63})

\* the pattern matches the line at the 0-based position pos
match_at(line, pos, pattern, literal, flags) ==
  /\ pos + Len(pattern) <= Len(line)
  /\ \A k \in 1..Len(pattern) :
       LET c == line[pos + k]
           q == pattern[k]
       IN \/ (~literal /\ q = 46 /\ (c # LF \/ 115 \in flags))
          \/ q = c
          \/ (105 \in flags /\ Lower(q) = Lower(c))

\* regex.finditer(line): the matches from left to right, none overlapping
\* another, as [start, end]
RECURSIVE finditer(_, _, _, _, _)
finditer(line, pos, pattern, literal, flags) ==
  IF pos > Len(line) THEN <<>>
  ELSE IF match_at(line, pos, pattern, literal, flags)
  THEN <<[start |-> pos, end |-> pos + Len(pattern)]>>
       \o finditer(line, IF pattern = <<>> THEN pos + 1 ELSE pos + Len(pattern),
                   pattern, literal, flags)
  ELSE finditer(line, pos + 1, pattern, literal, flags)

\* "Find all matches within scope": the matches of the lines line_num to
\* end_line that the policies do not skip, as [line_num, start, end, text]
RECURSIVE find_matches(_, _, _, _)
find_matches(ed, edit, line_num, end_line) ==
  IF line_num > end_line THEN <<>>
  ELSE LET line == ed.buffer[line_num + 1]
           skip == \/ /\ Get(edit, "codeBlocks", "exclude") = "exclude"
                      /\ is_in_code_block(ed.doc, line_num)
                   \/ /\ Get(edit, "tables", "exclude") = "exclude"
                      /\ is_in_table(ed.doc, line_num)
           found == finditer(line, 0, edit.pattern, Get(edit, "literal", TRUE),
                             {Get(edit, "flags", <<>>)[k] : k \in 1..Len(Get(edit, "flags", <<>>))})
       IN (IF skip THEN <<>>
           ELSE [k \in 1..Len(found) |->
                   [line_num |-> line_num, start |-> found[k].start, end |-> found[k].end,
                    text |-> SubSeq(line, found[k].start + 1, found[k].end)]])
          \o find_matches(ed, edit, line_num + 1, end_line)

Reverse(q) == [k \in 1..Len(q) |-> q[Len(q) + 1 - k]]

\* The value of occurrence is tagged with its type: the string "all", an
\* integer, or a value that is neither.
All == [kind |-> "all"]
Nth(n) == [kind |-> "int", value |-> n]

\* mutant: the matches are replaced in document order
to_replace_forward(matches, occurrence) ==
  IF occurrence.kind = "all" THEN matches ELSE <<matches[occurrence.value]>>

\* "Apply replacements (reverse order to maintain positions)": the matches
\* to replace, in the order they are replaced
to_replace(matches, occurrence) ==
  IF occurrence.kind = "all" THEN Reverse(matches) ELSE <<matches[occurrence.value]>>

\* the loop "for line_num, match in to_replace"
RECURSIVE replace_matches(_, _, _)
replace_matches(buffer, todo, replacement) ==
  IF todo = <<>> THEN buffer
  ELSE LET m == Head(todo)
           line == buffer[m.line_num + 1]
       IN replace_matches(
            [buffer EXCEPT ![m.line_num + 1] =
               PyTo(line, m.start) \o replacement \o PyFrom(line, m.end)],
            Tail(todo), replacement)

\* the Match records appended to self.matches: 1-based line and column
reported(matches) ==
  [k \in 1..Len(matches) |->
     [line |-> matches[k].line_num + 1, col |-> matches[k].start + 1,
      text |-> matches[k].text]]

\* the code of the diagnostic for re.error
regex_error_code == "INVALID_OPERATION"

\* MarkdownEditor._apply_replace_match
apply_replace_match(ed, edit) ==
  IF ~Has(edit, "pattern") \/ ~Has(edit, "replacement") THEN Raise(ed)
  ELSE IF ~re_compiles(edit.pattern, Get(edit, "literal", TRUE))
  THEN Fail(ed, regex_error_code)
  ELSE
  LET scope == Get(edit, "scope", [kind |-> "whole_document"])
  IN
  IF ~Has(scope, "kind") THEN Raise(ed)
  ELSE IF scope.kind \notin {"whole_document", "section"} THEN Fail(ed, "INVALID_OPERATION")
  ELSE IF scope.kind = "section" /\ ~Has(scope, "headingPath") THEN Raise(ed)
  ELSE
  LET looked == IF scope.kind = "section"
                THEN get_section_by_path(ed.doc, scope.headingPath,
                                         Get(scope, "includeSubsections", FALSE))
                ELSE [found |-> TRUE,
                      section |-> [start_line |-> 0, end_line |-> Len(ed.buffer) - 1]]
  IN
  IF ~looked.found THEN Fail(ed, looked.error_code)
  ELSE
  LET start_line == looked.section.start_line
      end_line == looked.section.end_line
  IN
  \* self.buffer[line_num] past the end of the buffer raises IndexError
  IF start_line <= end_line /\ end_line >= Len(ed.buffer) THEN Raise(ed)
  ELSE
  LET matches == find_matches(ed, edit, start_line, end_line)
      occurrence == Get(edit, "occurrence", All)
      with_matches == [ed EXCEPT !.matches = @ \o reported(matches)]
  IN
  IF Has(edit, "expectedMatches") /\ Len(matches) # edit.expectedMatches
  THEN Fail(ed, IF Len(matches) = 0 THEN "NO_MATCH" ELSE "AMBIGUOUS_MATCH")
  ELSE IF occurrence.kind \in {"all", "int"}
  THEN IF occurrence.kind = "int"
          /\ (occurrence.value < 1 \/ occurrence.value > Len(matches))
       THEN Fail(with_matches, "OUT_OF_RANGE")
       ELSE Done(with_matches,
                 replace_matches(ed.buffer, to_replace(matches, occurrence), edit.replacement))
  ELSE Fail(with_matches, "INVALID_OPERATION")

\* the section an edit addresses by sectionId or headingPath, or the code
\* of the diagnostic
edit_section(ed, edit) ==
  IF Has(edit, "sectionId")
  THEN get_section_by_id(ed.doc, edit.sectionId)
  ELSE IF Get(edit, "headingPath", <<>>) # <<>>
  THEN get_section_by_path(ed.doc, edit.headingPath, FALSE)
  ELSE [found |-> FALSE, error_code |-> "INVALID_OPERATION"]

\* "Find first subsection": the start_line of the first section of
\* doc.sections under heading_path that starts after the heading, or -1
subsection_start(doc, heading_path, section) ==
  LET under(s) ==
        /\ Len(s.heading_path) > Len(heading_path)
        /\ SubSeq(s.heading_path, 1, Len(heading_path)) = heading_path
        /\ s.start_line > section.heading_line
      found == SelectSeq(doc.sections, under)
  IN IF found = <<>> THEN -1 ELSE found[1].start_line

\* edit.get('keepSubsections', False)
keep_subsections(edit) == Get(edit, "keepSubsections", FALSE)

\* the last line replace_section replaces
content_end(ed, edit, section) ==
  IF keep_subsections(edit)
  THEN LET start == IF Get(edit, "headingPath", <<>>) # <<>>
                    THEN subsection_start(ed.doc, edit.headingPath, section)
                    ELSE -1
       IN IF start > 0 THEN start - 1 ELSE section.end_line
  ELSE section.end_line

\* "if new_lines and new_lines[0].strip().startswith('#')"
has_heading(new_lines) ==
  new_lines # <<>> /\ StartsWith(Strip(new_lines[1]), <<35>>)

\* MarkdownEditor._apply_replace_section
apply_replace_section(ed, edit) ==
  IF ~Has(edit, "markdown") THEN Fail(ed, "INVALID_OPERATION")
  ELSE
  LET looked == edit_section(ed, edit)
  IN
  IF ~looked.found THEN Fail(ed, looked.error_code)
  ELSE
  LET section == looked.section
      last == content_end(ed, edit, section)
      new_lines == Split(edit.markdown, <<LF>>)
  IN
  IF has_heading(new_lines)
  THEN Done(ed, PyTo(ed.buffer, section.heading_line)
                \o new_lines \o PyFrom(ed.buffer, last + 1))
  \* "preserved_heading = self.buffer[section.heading_line]" raises
  \* IndexError on a buffer that has become shorter
  ELSE IF section.heading_line >= Len(ed.buffer) THEN Raise(ed)
  ELSE Done(ed, PyTo(ed.buffer, section.heading_line + 1)
                \o new_lines \o PyFrom(ed.buffer, last + 1))

\* mutant: the blank line is added whatever line follows
needs_blank_line_always(ed, edit, insert_line) == TRUE

\* "Add blank line if needed"
needs_blank_line(ed, edit, insert_line) ==
  /\ Get(edit, "ensureBlankLine", TRUE)
  /\ insert_line < Len(ed.buffer)
  /\ Strip(ed.buffer[insert_line + 1]) # <<>>

\* MarkdownEditor._apply_insert_after_heading
apply_insert_after_heading(ed, edit) ==
  IF ~Has(edit, "markdown") THEN Fail(ed, "INVALID_OPERATION")
  ELSE
  LET looked == edit_section(ed, edit)
      position == Get(edit, "position", "afterHeading")
  IN
  IF ~looked.found THEN Fail(ed, looked.error_code)
  ELSE IF position \notin {"afterHeading", "start", "end"} THEN Fail(ed, "INVALID_OPERATION")
  ELSE
  LET insert_line == IF position = "end" THEN looked.section.end_line + 1
                     ELSE looked.section.heading_line + 1
      new_lines == Split(edit.markdown, <<LF>>)
                   \o (IF needs_blank_line(ed, edit, insert_line) THEN <<<<>>>> ELSE <<>>)
  IN Done(ed, PyTo(ed.buffer, insert_line) \o new_lines \o PyFrom(ed.buffer, insert_line))

\* "for key, value in set_values.items(): fm[key] = value"
RECURSIVE fm_set(_, _)
fm_set(fm, set_values) ==
  IF set_values = <<>> THEN fm
  ELSE LET item == Head(set_values)
           at == {k \in 1..Len(fm) : fm[k].key = item.key}
       IN fm_set(IF at = {} THEN Append(fm, item)
                 ELSE [k \in 1..Len(fm) |-> IF k \in at THEN item ELSE fm[k]],
                 Tail(set_values))

\* "for key in remove_keys: fm.pop(key, None)"
fm_remove(fm, remove_keys) ==
  SelectSeq(fm, LAMBDA item : \A k \in 1..Len(remove_keys) : remove_keys[k] # item.key)

\* "Serialize back to YAML"
fm_lines(fm) == yaml_dump_lines(fm)

\* MarkdownEditor._apply_update_front_matter
apply_update_front_matter(ed, edit) ==
  LET fm == fm_remove(fm_set(ed.doc.front_matter, Get(edit, "set", <<>>)),
                      Get(edit, "remove", <<>>))
      dashes == <<45, 45, 45>>
  IN IF ed.doc.front_matter_lines # <<>>
     THEN Done(ed, <<dashes>> \o fm_lines(fm) \o <<dashes>>
                   \o PyFrom(ed.buffer, ed.doc.front_matter_lines[2] + 1))
     ELSE Done(ed, <<dashes>> \o fm_lines(fm) \o <<dashes, <<>>>> \o ed.buffer)

\* MarkdownEditor.apply_edit
apply_edit(ed, edit) ==
  IF edit.op = "replace_range" THEN apply_replace_range(ed, edit)
  ELSE IF edit.op = "replace_match" THEN apply_replace_match(ed, edit)
  ELSE IF edit.op = "replace_section" THEN apply_replace_section(ed, edit)
  ELSE IF edit.op = "insert_after_heading" THEN apply_insert_after_heading(ed, edit)
  ELSE IF edit.op = "update_front_matter" THEN apply_update_front_matter(ed, edit)
  ELSE Fail(ed, "INVALID_OPERATION")
\* mutant: the buffer is joined with "\n" whatever the document's eol
get_content_lf(eol, buffer) == Join(buffer, <<LF>>)

\* MarkdownEditor.get_content
get_content(eol, buffer) == Join(buffer, IF eol = "CRLF" THEN <<CR, LF>> ELSE <<LF>>)

---------------------------------------------------------------------------
(* md_apply up to its write: a function of the bytes read and the request. *)
(* A request is the record of md_apply's arguments, with the formatter's   *)
(* behaviour in the run ("unavailable": the import of mdformat failed,     *)
(* "ok", or "raise": mdformat.text raises).                                *)

\* The loop over the edits: the editor after the loop, the status of every
\* edit attempted, in order, and how the loop ended ("done", "conflict": a
\* failed edit in atomic mode, "raise": an edit raised).
RECURSIVE run_edits(_, _, _, _)
run_edits(ed, edits, atomic, statuses) ==
  IF edits = <<>> THEN [editor |-> ed, statuses |-> statuses, outcome |-> "done"]
  ELSE LET r == apply_edit(ed, Head(edits))
           seen == Append(statuses, r.status)
       IN IF r.status = "raise"
          THEN [editor |-> r.editor, statuses |-> seen, outcome |-> "raise"]
          ELSE IF r.status = "fail" /\ atomic
          THEN [editor |-> r.editor, statuses |-> seen, outcome |-> "conflict"]
          ELSE run_edits(r.editor, Tail(edits), atomic, seen)

Count(statuses, v) == Cardinality({i \in 1..Len(statuses) : statuses[i] = v})

\* mdformat.text, an external formatter: modelled by the one normalisation
\* the finalizer can observe, a single "\n" at the end of the text.
RECURSIVE StripEnd(_)
StripEnd(s) ==
  IF s # <<>> /\ s[Len(s)] \in {LF, CR} THEN StripEnd(SubSeq(s, 1, Len(s) - 1)) ELSE s
mdformat_text(s) == StripEnd(s) \o <<LF>>

\* difflib.unified_diff of the two texts: empty exactly when they are equal,
\* otherwise determined by the pair.
unified_diff(old, new) == IF old = new THEN <<>> ELSE <<old, new>>

\* the record md_apply returns with ok = False, and what the call did
Failure(code, statuses, diagnostics) ==
  [ok |-> FALSE, errorCode |-> code, contentSha256 |-> NoSha, diff |-> <<>>,
   editsApplied |-> 0, diagnostics |-> diagnostics, statuses |-> statuses,
   buffer |-> <<>>, new_content |-> <<>>, new_bytes |-> <<>>, write |-> FALSE]

\* mutant: no precondition check
hash_mismatch_ignored(doc, r) == FALSE

\* "if doc.sha256 != base_sha256": the precondition check
hash_mismatch(doc, r) == doc.sha256 # r.base_sha256

\* mutant: the final newline added is "\n" whatever the document's eol
final_newline_lf(formatted, doc, r) ==
  IF r.ensure_final_newline /\ ~EndsWith(formatted, <<LF>>)
  THEN formatted \o <<LF>>
  ELSE formatted

\* mutant: a dry run returns the hash and the diff of the text before the
\* final newline is added
final_newline_not_in_dry_run(formatted, doc, r) ==
  IF ~r.dry_run /\ r.ensure_final_newline /\ ~EndsWith(formatted, <<LF>>)
  THEN formatted \o (IF doc.eol = "LF" THEN <<LF>> ELSE <<CR, LF>>)
  ELSE formatted

\* "if ensure_final_newline and not new_content.endswith('\n')"
final_newline(formatted, doc, r) ==
  IF r.ensure_final_newline /\ ~EndsWith(formatted, <<LF>>)
  THEN formatted \o (IF doc.eol = "LF" THEN <<LF>> ELSE <<CR, LF>>)
  ELSE formatted

\* "encoding = doc.encoding if preserve_encoding else 'utf-8'"
output_encoding(doc, r) == IF r.preserve_encoding THEN doc.encoding ELSE "utf-8"

\* mutant: write_bytes is reached in a dry run too
writes_in_dry_run(r) == TRUE

\* "if not dry_run: doc.file_path.write_bytes(new_bytes)"
writes(r) == ~r.dry_run

\* The value of a singleton set.  A stage is written as the image of a
\* singleton, which binds the value computed so far instead of recomputing it.
Only(S) == CHOOSE x \in S : TRUE

\* md_apply after the edits: formatting, final newline, diff, encoding, hash
finalize(doc, r, run) ==
  LET content == get_content(doc.eol, run.editor.buffer)
      formatting == r.format_mode = "mdformat" /\ r.formatter # "unavailable"
  IN
  IF formatting /\ r.formatter = "raise" /\ r.atomic
  THEN Failure("MARKDOWN_BROKEN", run.statuses, <<>>)
  ELSE
  LET formatted == IF formatting /\ r.formatter = "ok" THEN mdformat_text(content)
                   ELSE content
  IN Only({
       LET diff == unified_diff(doc.content, new_content)
       IN Only({
            IF ~new_bytes.ok THEN Failure("IO_ERROR", run.statuses, <<>>)
            ELSE [ok |-> TRUE, errorCode |-> "",
                  contentSha256 |-> sha256(new_bytes.bytes),
                  diff |-> diff, editsApplied |-> Count(run.statuses, "ok"),
                  diagnostics |-> run.editor.diagnostics, statuses |-> run.statuses,
                  matches |-> run.editor.matches,
                  buffer |-> run.editor.buffer, new_content |-> new_content,
                  new_bytes |-> new_bytes.bytes, write |-> writes(r)]
            : new_bytes \in {encode(new_content, output_encoding(doc, r))}})
       : new_content \in {final_newline(formatted, doc, r)}})

\* md_apply after load: the precondition check and the loop over the edits
apply_loaded(doc, r) ==
  IF ~doc.ok THEN Failure("IO_ERROR", <<>>, <<>>)
  ELSE IF hash_mismatch(doc, r) THEN Failure("PRECONDITION_FAILED", <<>>, <<>>)
  ELSE Only({
         IF run.outcome = "raise" THEN Failure("IO_ERROR", run.statuses, <<>>)
         ELSE IF run.outcome = "conflict"
         THEN Failure("CONFLICTING_EDITS", run.statuses, run.editor.diagnostics)
         ELSE finalize(doc, r, run)
         : run \in {run_edits(MarkdownEditor(doc), r.edits, r.atomic, <<>>)}})

md_apply(raw_bytes, r) == Only({apply_loaded(doc, r) : doc \in {load(raw_bytes)}})

---------------------------------------------------------------------------
(* md_stat and md_validate. *)

\* MarkdownDocument.validate_fences: the fence stack after the lines
RECURSIVE fence_stack(_, _)
fence_stack(lines, stack) ==
  IF lines = <<>> THEN stack
  ELSE LET stripped == Strip(Head(lines))
           fence == StartsWith(stripped, <<96, 96, 96>>)
                    \/ StartsWith(stripped, <<126, 126, 126>>)
       IN fence_stack(Tail(lines),
            IF ~fence THEN stack
            ELSE IF stack = <<>> \/ stack[Len(stack)] # stripped[1]
                 THEN Append(stack, stripped[1])
                 ELSE SubSeq(stack, 1, Len(stack) - 1))

validate_fences(lines) ==
  LET stack == fence_stack(lines, <<>>)
  IN IF stack # <<>> THEN <<[code |-> "UNBALANCED_FENCE", unclosed |-> Len(stack)]>>
     ELSE <<>>

\* md_stat, the fields that do not depend on the structural index
md_stat(raw_bytes) ==
  LET doc == load(raw_bytes)
  IN IF ~doc.ok
     THEN [ok |-> FALSE, errorCode |-> "IO_ERROR", contentSha256 |-> NoSha]
     ELSE [ok |-> TRUE, errorCode |-> "", contentSha256 |-> doc.sha256,
           encoding |-> doc.encoding, eol |-> doc.eol, lineCount |-> Len(doc.lines)]

\* md_validate without the format preview
md_validate(raw_bytes) ==
  LET doc == load(raw_bytes)
  IN IF ~doc.ok
     THEN [ok |-> FALSE, errorCode |-> "IO_ERROR", contentSha256 |-> NoSha]
     ELSE [ok |-> TRUE, errorCode |-> "", contentSha256 |-> doc.sha256,
           diagnostics |-> validate_fences(doc.lines)]

---------------------------------------------------------------------------
(* The calls as steps.  md_apply reads the file once, at its start, and    *)
(* writes it once, at its end; everything between is a function of what it *)
(* read, so a call is the step ApplyBegin, followed by the step ApplyWrite *)
(* when the call reaches write_bytes.  Between the two another process may *)
(* write the file.                                                         *)

NoCall == [op |-> "none"]

Stat ==
  /\ pc = "idle"
  /\ LET res == md_stat(file)
     IN /\ ret' = [op |-> "stat", res |-> res]
        /\ known' = IF res.ok THEN res.contentSha256 ELSE known
  /\ UNCHANGED <<file, pc, pend, editor, edit_ret>>

Validate ==
  /\ pc = "idle"
  /\ LET res == md_validate(file)
     IN /\ ret' = [op |-> "validate", res |-> res]
        /\ known' = IF res.ok THEN res.contentSha256 ELSE known
  /\ UNCHANGED <<file, pc, pend, editor, edit_ret>>

\* md_apply from its start to its return, or to its write_bytes
ApplyBegin(requests) ==
  /\ pc = "idle"
  /\ \E r \in requests : \E res \in {md_apply(file, r)} :
       LET call == [op |-> "apply", req |-> r, res |-> res, before |-> file]
       IN IF res.write
          THEN /\ pc' = "write"
               /\ pend' = call
               /\ ret' = ret
          ELSE /\ pc' = "idle"
               /\ pend' = pend
               /\ ret' = call
  /\ UNCHANGED <<file, known, editor, edit_ret>>

\* doc.file_path.write_bytes(new_bytes), and the return of the record
ApplyWrite ==
  /\ pc = "write"
  /\ file' = pend.res.new_bytes
  /\ ret' = pend
  /\ pend' = NoCall
  /\ pc' = "idle"
  /\ UNCHANGED <<known, editor, edit_ret>>

\* another process writes the file
OtherWrite(files) ==
  /\ \E f \in files : f # file /\ file' = f
  /\ UNCHANGED <<pc, known, pend, ret, editor, edit_ret>>

---------------------------------------------------------------------------
(* One md_apply call on a drawn file. *)

RECURSIVE SeqsUpTo(_, _)
SeqsUpTo(S, n) ==
  IF n = 0 THEN {<<>>}
  ELSE LET shorter == SeqsUpTo(S, n - 1)
       IN shorter \cup {Append(q, x) : q \in {r \in shorter : Len(r) = n - 1}, x \in S}

\* "", "a" followed by U+00E9
FileLineTexts == {<<>>, <<97, 233>>}

\* texts of one to MaxFileLines lines, LF or CRLF, with or without a final
\* newline; the empty text is among them
FileTexts ==
  {Join(ls, e) \o (IF f THEN e ELSE <<>>) :
     ls \in SeqsUpTo(FileLineTexts, MaxFileLines) \ {<<>>},
     e \in {<<LF>>, <<CR, LF>>},
     f \in BOOLEAN}

\* a BOM followed by a byte that is not UTF-8; "a\r" (a lone CR); and
\* "a\r\nb\nc" (both terminators)
OddFiles == {BOM \o <<233>>, <<97, 13>>, <<97, 13, 10, 98, 10, 99>>}

\* every text in UTF-8, in UTF-8 with BOM and in Latin-1
Files ==
  {Utf8Encode(t) : t \in FileTexts}
    \cup {BOM \o Utf8Encode(t) : t \in FileTexts}
    \cup FileTexts
    \cup OddFiles

RangeEdit(sl, sc, el, ec, replacement) ==
  [op |-> "replace_range", range |-> [sl |-> sl, sc |-> sc, el |-> el, ec |-> ec],
   replacement |-> replacement]

\* an edit that succeeds on every buffer: "X" over the first character
EditX == RangeEdit(0, 0, 0, 1, <<88>>)
\* a replacement with a line feed, a replacement with U+20AC
EditLF == RangeEdit(0, 0, 0, 0, <<88, LF, 89>>)
EditEuro == RangeEdit(0, 0, 0, 0, <<8364>>)
\* joins the first two lines; out of range on a one-line buffer
EditJoin == RangeEdit(0, 0, 1, 0, <<>>)
\* a line far past every buffer
EditFar == RangeEdit(99, 0, 99, 0, <<88>>)
EditNoRange == [op |-> "replace_range", replacement |-> <<88>>]
EditUnknown == [op |-> "rename_heading"]

EditLists ==
  {<<>>, <<EditX>>, <<EditLF>>, <<EditEuro>>, <<EditX, EditJoin>>, <<EditJoin, EditX>>,
   <<EditFar, EditX>>, <<EditUnknown, EditX>>, <<EditNoRange, EditX>>}

Formatters ==
  {[format_mode |-> "none", formatter |-> "ok"],
   [format_mode |-> "mdformat", formatter |-> "unavailable"],
   [format_mode |-> "mdformat", formatter |-> "ok"],
   [format_mode |-> "mdformat", formatter |-> "raise"]}

Request(base, edits, atomic, dry_run, fmt, preserve_encoding, ensure_final_newline) ==
  [base_sha256 |-> base, edits |-> edits, atomic |-> atomic, dry_run |-> dry_run,
   format_mode |-> fmt.format_mode, formatter |-> fmt.formatter,
   preserve_encoding |-> preserve_encoding,
   ensure_final_newline |-> ensure_final_newline]

\* the calls drawn on the file f: every combination with the hash of f, and
\* calls with a hash that is not the file's
ApplyRequests(f) ==
  {Request(sha256(f), es, a, d, fm, pe, nl) :
     es \in EditLists, a \in BOOLEAN, d \in BOOLEAN, fm \in Formatters,
     pe \in BOOLEAN, nl \in BOOLEAN}
  \cup
  {Request(ZeroSha, es, a, d, [format_mode |-> "none", formatter |-> "ok"], TRUE, TRUE) :
     es \in {<<>>, <<EditX>>, <<EditNoRange, EditX>>}, a \in BOOLEAN, d \in BOOLEAN}

NoEdit == [status |-> "none", edit |-> [op |-> "none"], before |-> <<>>]
NoEditor == [buffer |-> <<>>, diagnostics |-> <<>>]

InitApply ==
  /\ file \in Files
  /\ pc = "idle"
  /\ known = NoSha
  /\ pend = NoCall
  /\ ret = NoCall
  /\ editor = NoEditor
  /\ edit_ret = NoEdit

ApplyOnce == ret = NoCall /\ ApplyBegin(ApplyRequests(file))

NextApply == ApplyOnce \/ ApplyWrite

SpecApply == InitApply /\ [][NextApply]_vars

---------------------------------------------------------------------------
(* Claims about one md_apply call. *)

Applied == ret.op = "apply"
HashMatches == sha256(ret.before) = ret.req.base_sha256
\* the file of the call is one load decodes
Loadable == load(ret.before).ok
AllSucceeded ==
  /\ Len(ret.res.statuses) = Len(ret.req.edits)
  /\ \A i \in 1..Len(ret.res.statuses) : ret.res.statuses[i] = "ok"

\* C1: if the SHA-256 of the bytes on disk differs from baseSha256, apply
\* returns ok=false with PRECONDITION_FAILED, attempts no edit and leaves
\* the bytes on disk as they were.
C1_HashGate ==
  (Applied /\ ~HashMatches) =>
    /\ ~ret.res.ok
    /\ ret.res.errorCode = "PRECONDITION_FAILED"
    /\ ret.res.statuses = <<>>
    /\ file = ret.before

\* C2: in atomic mode an apply on a file it can load, with the file's hash,
\* either has every edit succeed, or leaves the file unchanged and returns
\* ok=false with CONFLICTING_EDITS, whatever the way the edit failed.
C2_AtomicAllOrNothing ==
  (Applied /\ Loadable /\ HashMatches /\ ret.req.atomic) =>
    \/ AllSucceeded
    \/ /\ ~ret.res.ok
       /\ ret.res.errorCode = "CONFLICTING_EDITS"
       /\ file = ret.before

\* the buffer after the edits of the list whose status is "ok", in list order
RECURSIVE ApplySucceeded(_, _, _)
ApplySucceeded(ed, edits, statuses) ==
  IF edits = <<>> \/ statuses = <<>> THEN ed
  ELSE ApplySucceeded(IF Head(statuses) = "ok" THEN apply_edit(ed, Head(edits)).editor
                      ELSE ed,
                      Tail(edits), Tail(statuses))

\* C3: in non-atomic mode every edit of the list is attempted, in list
\* order, whatever failed before it; each failure adds a diagnostic, the
\* final buffer is the result of the successful edits and editsApplied is
\* their number.
C3_NonAtomicAttemptsAll ==
  (Applied /\ Loadable /\ HashMatches /\ ~ret.req.atomic) =>
    /\ Len(ret.res.statuses) = Len(ret.req.edits)
    /\ ret.res.ok =>
         /\ ret.res.editsApplied = Count(ret.res.statuses, "ok")
         /\ Len(ret.res.diagnostics) = Count(ret.res.statuses, "fail")
         /\ ret.res.buffer
              = ApplySucceeded(MarkdownEditor(load(ret.before)), ret.req.edits,
                               ret.res.statuses).buffer

\* C4: a call with dryRun=true returns the contentSha256 and the diff that
\* the same call with dryRun=false returns, and leaves the file as it was.
C4_DryRunSameResult ==
  (Applied /\ ret.req.dry_run) =>
    LET wet == md_apply(ret.before, [ret.req EXCEPT !.dry_run = FALSE])
    IN /\ ret.res.ok = wet.ok
       /\ ret.res.contentSha256 = wet.contentSha256
       /\ ret.res.diff = wet.diff
       /\ file = ret.before

\* a dry run that succeeded with a non-empty diff
C4_Witness ==
  /\ Applied /\ ret.req.dry_run /\ ret.res.ok
  /\ ret.res.diff # <<>>
  /\ ret.res.contentSha256 # sha256(ret.before)
  /\ file = ret.before

\* the call of C7: the file's own hash, no edit, no dry run, no formatter
NoopCall ==
  /\ Applied /\ HashMatches
  /\ ret.req.edits = <<>>
  /\ ~ret.req.dry_run
  /\ ret.req.format_mode = "none"

\* the file has its original hash, or its original bytes followed by one
\* newline that ensureFinalNewline added to a file that lacked one
NoopOutcome ==
  \/ sha256(file) = ret.req.base_sha256
  \/ /\ ret.req.ensure_final_newline
     /\ ~EndsWith(ret.before, <<LF>>)
     /\ \E nl \in {<<LF>>, <<CR, LF>>} : file = ret.before \o nl

\* C7 as claimed: apply with the file's own hash, edits=[] and dryRun=false
\* leaves a file with the original hash, or the original bytes plus one
\* final newline when ensureFinalNewline=true and the file lacked one.
C7_NoopIdentity == NoopCall => NoopOutcome

\* C7 as amended: the same, for a call with preserveEncoding=true.
C7_NoopIdentityPreserving == (NoopCall /\ ret.req.preserve_encoding) => NoopOutcome

\* a CRLF file with a BOM and no final newline, which apply ended with CRLF
C7_Witness ==
  /\ NoopCall /\ ret.req.preserve_encoding /\ ret.res.ok
  /\ load(ret.before).encoding = "utf-8-sig"
  /\ load(ret.before).eol = "CRLF"
  /\ file = ret.before \o <<CR, LF>>

\* bytes.decode(encoding), for bytes that decode
decode(bytes, encoding) ==
  IF encoding = "utf-8" THEN Utf8Decode(bytes)
  ELSE IF encoding = "utf-8-sig"
  THEN Utf8Decode(IF StartsWith(bytes, BOM) THEN SubSeq(bytes, 4, Len(bytes)) ELSE bytes)
  ELSE bytes

\* every line terminator of the text is the one named: no CR at all in an
\* LF text, every CR followed by LF and every LF preceded by CR in a CRLF text
TerminatorsAre(eol, text) ==
  IF eol = "LF" THEN \A i \in 1..Len(text) : text[i] # CR
  ELSE \A i \in 1..Len(text) :
         /\ text[i] = LF => (i > 1 /\ text[i - 1] = CR)
         /\ text[i] = CR => (i < Len(text) /\ text[i + 1] = LF)

\* the edits bring no terminator foreign to the document: no CR, and no bare
\* LF into a CRLF document
EditsKeepEol(edits, eol) ==
  \A i \in 1..Len(edits) :
    Has(edits[i], "replacement") =>
      \A k \in 1..Len(edits[i].replacement) :
        /\ edits[i].replacement[k] # CR
        /\ eol = "CRLF" => edits[i].replacement[k] # LF

\* a successful apply without formatter on a file whose terminators are all
\* LF or all CRLF, with edits that bring no foreign terminator
EolCall ==
  /\ Applied /\ ret.res.ok
  /\ ret.req.format_mode = "none"
  /\ TerminatorsAre(load(ret.before).eol, load(ret.before).content)
  /\ EditsKeepEol(ret.req.edits, load(ret.before).eol)

---------------------------------------------------------------------------
(* A caller that calls stat, validate and apply on one file, one call at a *)
(* time, passing to apply the hash the last stat or validate returned; and *)
(* the same caller next to another process that writes the file.           *)

\* "a" U+00E9 in UTF-8 without final newline; the same with BOM and CRLF;
\* two such lines in Latin-1 with CRLF; a BOM followed by a byte that is not
\* UTF-8
ProtoFiles ==
  {<<97, 195, 169>>,
   BOM \o <<97, 195, 169, 13, 10>>,
   <<97, 233, 13, 10, 97, 233>>,
   BOM \o <<233>>}

\* U+20AC over the first character
EditEuroOver == RangeEdit(0, 0, 0, 1, <<8364>>)

\* edits that do not make the file longer each time they are applied
ProtoEditLists ==
  {<<>>, <<EditEuroOver>>, <<EditNoRange, EditX>>, <<EditFar, EditX>>}

ProtoFormatters ==
  {[format_mode |-> "none", formatter |-> "ok"],
   [format_mode |-> "mdformat", formatter |-> "ok"],
   [format_mode |-> "mdformat", formatter |-> "raise"]}

\* the calls of a caller whose last known hash is base
ProtoRequests(base) ==
  {Request(base, es, a, d, fm, pe, TRUE) :
     es \in ProtoEditLists, a \in BOOLEAN, d \in BOOLEAN, fm \in ProtoFormatters,
     pe \in BOOLEAN}

Init ==
  /\ file \in ProtoFiles
  /\ pc = "idle"
  /\ known = NoSha
  /\ pend = NoCall
  /\ ret = NoCall
  /\ editor = NoEditor
  /\ edit_ret = NoEdit

Apply == ApplyBegin(ProtoRequests(known))

Next == Stat \/ Validate \/ Apply \/ ApplyWrite

Spec == Init /\ [][Next]_vars

\* the calls of the caller that runs next to another writer: no edit or one
\* edit, written or not
ConcRequests(base) ==
  {Request(base, es, TRUE, d, [format_mode |-> "none", formatter |-> "ok"], TRUE, TRUE) :
     es \in {<<>>, <<EditX>>}, d \in BOOLEAN}

ApplyConc == ApplyBegin(ConcRequests(known))

NextConc == Stat \/ Validate \/ ApplyConc \/ ApplyWrite \/ OtherWrite(ProtoFiles)

SpecConc == Init /\ [][NextConc]_vars

\* C5: across any sequence of stat, validate and apply calls the file's bytes
\* change only in the write that ends an apply call returning ok=true with
\* dryRun=false, and a call that returns ok=false, whatever its error, leaves
\* the file as it was.
C5_WriteIsLastEffect ==
  [][/\ file' # file =>
          /\ pc = "write" /\ pc' = "idle"
          /\ ret'.op = "apply" /\ ret'.res.ok /\ ~ret'.req.dry_run
          /\ file' = ret'.res.new_bytes
     /\ (ret' # ret /\ ret'.op = "apply" /\ ~ret'.res.ok) =>
          (file' = file /\ file' = ret'.before)]_vars

\* an apply that returned ok=true and changed the file
C5_Witness ==
  /\ ret.op = "apply" /\ ret.res.ok /\ ~ret.req.dry_run
  /\ pc = "idle"
  /\ file # ret.before
  /\ file = ret.res.new_bytes

\* C6 as claimed: when apply writes, the content it overwrites has the hash
\* baseSha256, whatever another writer did since the caller got that hash.
C6_NeverOverwritesOtherContent ==
  [][(pc = "write" /\ pc' = "idle") => sha256(file) = pend.req.base_sha256]_vars

\* C6 as amended: apply goes on to write only if the bytes it read have the
\* hash baseSha256; a call that reads a file another writer changed since the
\* caller got baseSha256 returns ok=false without writing, with
\* PRECONDITION_FAILED, or IO_ERROR if the changed file does not load; and
\* the write puts the output computed from the bytes read in place of
\* whatever the file then holds.
C6_HashGateAtRead ==
  [][/\ (pc = "idle" /\ pc' = "write") =>
          /\ pend'.before = file
          /\ sha256(file) = pend'.req.base_sha256
     /\ (pc = "idle" /\ ret' # ret /\ ret'.op = "apply"
           /\ sha256(file) # ret'.req.base_sha256) =>
          /\ ~ret'.res.ok
          /\ ret'.res.errorCode =
               (IF load(file).ok THEN "PRECONDITION_FAILED" ELSE "IO_ERROR")
          /\ pc' = "idle"
          /\ file' = file
     /\ (pc = "write" /\ pc' = "idle") =>
          /\ file' = pend.res.new_bytes
          /\ sha256(pend.before) = pend.req.base_sha256]_vars

\* the caller got the hash from stat or validate, another writer changed the
\* file, and apply failed on the precondition
C6_Witness ==
  /\ ret.op = "apply"
  /\ known # NoSha
  /\ ret.req.base_sha256 = known
  /\ sha256(ret.before) # known
  /\ ~ret.res.ok /\ ret.res.errorCode = "PRECONDITION_FAILED"
  /\ pc = "idle"
  /\ file = ret.before

---------------------------------------------------------------------------
(* The edit kernel on its own: one apply_edit on a drawn buffer. *)

\* "", "ab", "c"
LineTexts == {<<>>, <<97, 98>>, <<99>>}

\* the buffers load can produce: at least one line
Buffers == SeqsUpTo(LineTexts, MaxLines) \ {<<>>}

Ranges ==
  {[sl |-> a, sc |-> b, el |-> c, ec |-> d] :
     a \in -1..MaxPos, b \in 0..MaxPos, c \in -1..MaxPos, d \in 0..MaxPos}

\* "", "X"
Replacements == {<<>>, <<88>>}

RangeEdits ==
  {[op |-> "replace_range", range |-> r, replacement |-> t] :
     r \in Ranges, t \in Replacements}

\* "", "b", "ab", "b\nc", "\n", "\nab"
ExpectedTexts == {<<>>, <<98>>, <<97, 98>>, <<98, LF, 99>>, <<LF>>, <<LF, 97, 98>>}

\* replace_range edits with expectedText, on the first MaxLines lines and the
\* first columns
ExpectEdits ==
  {[op |-> "replace_range", range |-> [sl |-> a, sc |-> b, el |-> c, ec |-> d],
    replacement |-> <<88>>, expectedText |-> t] :
     a \in 0..MaxLines - 1, b \in 0..2, c \in 0..MaxLines - 1, d \in 0..2,
     t \in ExpectedTexts}

\* edits with a required field left out, and an edit with an unknown op
BrokenEdits ==
  {[op |-> "replace_range", replacement |-> <<88>>],
   [op |-> "replace_range", range |-> [sl |-> 0, sc |-> 0, el |-> 0, ec |-> 0]],
   [op |-> "rename_heading"]}


InitEdit ==
  /\ file = <<>>
  /\ pc = "idle"
  /\ known = NoSha
  /\ pend = NoCall
  /\ ret = NoCall
  /\ editor \in {MarkdownEditor([lines |-> b, content |-> Join(b, <<LF>>)]) : b \in Buffers}
  /\ edit_ret = NoEdit

EditStep ==
  /\ edit_ret.status = "none"
  /\ \E edit \in RangeEdits \cup ExpectEdits \cup BrokenEdits :
       LET r == apply_edit(editor, edit)
       IN /\ editor' = r.editor
          /\ edit_ret' = [status |-> r.status, edit |-> edit, before |-> editor.buffer]
  /\ UNCHANGED <<file, pc, known, pend, ret>>

NextEdit == EditStep

SpecEdit == InitEdit /\ [][NextEdit]_vars

---------------------------------------------------------------------------
(* replace_range as its documentation states it: 1-based line and column,  *)
(* half-open, on the text of the buffer.                                   *)

IsRangeEdit(e) == e.op = "replace_range" /\ Has(e, "range") /\ Has(e, "replacement")

\* the position (line, col), both 1-based, is a position of the buffer
InBuffer1(buffer, line, col) ==
  /\ 1 <= line /\ line <= Len(buffer)
  /\ 0 <= col - 1 /\ col - 1 <= Len(buffer[line])

\* the number of characters of Join(buffer, "\n") before the 1-based (line, col)
Offset1(buffer, line, col) ==
  Len(Join(SubSeq(buffer, 1, line - 1) \o <<SubSeq(buffer[line], 1, col - 1)>>, <<LF>>))

RangeInBuffer1(buffer, r) ==
  /\ InBuffer1(buffer, r.sl, r.sc)
  /\ InBuffer1(buffer, r.el, r.ec)

RangeOrdered(r) == r.sl < r.el \/ (r.sl = r.el /\ r.sc <= r.ec)

\* the text of the buffer with the characters of [start, end) replaced
ReplacedText1(buffer, r, replacement) ==
  LET text == Join(buffer, <<LF>>)
  IN SubSeq(text, 1, Offset1(buffer, r.sl, r.sc))
     \o replacement
     \o SubSeq(text, Offset1(buffer, r.el, r.ec) + 1, Len(text))

\* C9: a replace_range whose 1-based half-open range lies inside the buffer
\* replaces exactly the characters from column c1 of line l1 up to, not
\* including, column c2 of line l2 (first line 1, first column 1) and leaves
\* every other character of the buffer unchanged.
C9_RangeIsOneBasedHalfOpen ==
  (/\ edit_ret.status = "ok"
   /\ IsRangeEdit(edit_ret.edit)
   /\ RangeInBuffer1(edit_ret.before, edit_ret.edit.range)
   /\ RangeOrdered(edit_ret.edit.range))
  => Join(editor.buffer, <<LF>>)
       = ReplacedText1(edit_ret.before, edit_ret.edit.range, edit_ret.edit.replacement)

\* C10: replace_range accepts a range exactly when both 1-based lines exist
\* and both columns, converted to 0-based, lie within [0, len(line)]; any
\* other range fails with OUT_OF_RANGE and leaves the buffer unchanged.
C10_RangeAcceptedIffInBuffer ==
  IsRangeEdit(edit_ret.edit) =>
    IF RangeInBuffer1(edit_ret.before, edit_ret.edit.range)
    THEN edit_ret.status = "ok"
    ELSE /\ edit_ret.status = "fail"
         /\ editor.diagnostics = <<"OUT_OF_RANGE">>
         /\ editor.buffer = edit_ret.before

---------------------------------------------------------------------------
(* replace_range with expectedText.  The positions are taken as the code   *)
(* takes them, 0-based.                                                    *)

\* the 0-based range as a 1-based one
Range1(r) == [sl |-> r.sl + 1, sc |-> r.sc + 1, el |-> r.el + 1, ec |-> r.ec + 1]

\* the characters of Join(buffer, "\n") from the start of the 0-based range
\* up to its end: the suffix of the start line, the lines between and the
\* prefix of the end line, with "\n" between them
SpannedText(buffer, r) ==
  SubSeq(Join(buffer, <<LF>>),
         Offset1(buffer, r.sl + 1, r.sc + 1) + 1,
         Offset1(buffer, r.el + 1, r.ec + 1))

\* a replace_range with expectedText whose range lies in the buffer
ExpectCase ==
  /\ IsRangeEdit(edit_ret.edit)
  /\ Has(edit_ret.edit, "expectedText")
  /\ RangeInBuffer1(edit_ret.before, Range1(edit_ret.edit.range))
  /\ RangeOrdered(edit_ret.edit.range)

---------------------------------------------------------------------------
(* One md_apply call with one structured edit on a drawn Markdown          *)
(* document.  The documents are ASCII, so their bytes are their text.      *)

\* "aa a\nba\n"
DocMatches == <<97, 97, 32, 97, 10, 98, 97, 10>>
\* "a\n```\na\n```\na\n"
DocFenced == <<97, 10, 96, 96, 96, 10, 97, 10, 96, 96, 96, 10, 97, 10>>
\* "a\n~~~\na\n"
DocOpenFence == <<97, 10, 126, 126, 126, 10, 97, 10>>
\* "|a|\n|-|\n|a|\n\na\n"
DocTable == <<124, 97, 124, 10, 124, 45, 124, 10, 124, 97, 124, 10, 10, 97, 10>>
\* "# A\n## B\n# A\n## B\n"
DocAmbiguous == <<35, 32, 65, 10, 35, 35, 32, 66, 10, 35, 32, 65, 10, 35, 35, 32, 66, 10>>
\* "# Intro\nold\n## Sub\nx\n"
DocIntro == <<35, 32, 73, 110, 116, 114, 111, 10, 111, 108, 100, 10, 35, 35, 32, 83, 117, 98, 10, 120, 10>>
\* "# A\n## B\n### C\n## D\nx\n"
DocNested == <<35, 32, 65, 10, 35, 35, 32, 66, 10, 35, 35, 35, 32, 67, 10, 35, 35, 32, 68, 10, 120, 10>>
\* "# A\n\nx\n## B\n"
DocBlank == <<35, 32, 65, 10, 10, 120, 10, 35, 35, 32, 66, 10>>
\* "---\ntitle: old\n---\nbody\n"
DocFrontMatter == <<45, 45, 45, 10, 116, 105, 116, 108, 101, 58, 32, 111, 108, 100, 10, 45, 45, 45, 10, 98, 111, 100, 121, 10>>

DocFiles ==
  {DocMatches,
   DocFenced,
   DocOpenFence,
   DocTable,
   DocAmbiguous,
   DocIntro,
   DocNested,
   DocBlank,
   DocFrontMatter}

\* "A"
TxtA == <<65>>
\* "B"
TxtB == <<66>>
\* "C"
TxtC == <<67>>
\* "D"
TxtD == <<68>>
\* "Z"
TxtZ == <<90>>
\* "Intro"
TxtIntro == <<73, 110, 116, 114, 111>>
\* "intro"
TxtIntroLower == <<105, 110, 116, 114, 111>>
\* "Sub"
TxtSub == <<83, 117, 98>>
\* "new body"
TxtNewBody == <<110, 101, 119, 32, 98, 111, 100, 121>>
\* "# Introduction\nnew body"
TxtNewHeading == <<35, 32, 73, 110, 116, 114, 111, 100, 117, 99, 116, 105, 111, 110, 10, 110, 101, 119, 32, 98, 111, 100, 121>>
\* "\n# Introduction\nnew body"
TxtBlankThenHeading == <<10, 35, 32, 73, 110, 116, 114, 111, 100, 117, 99, 116, 105, 111, 110, 10, 110, 101, 119, 32, 98, 111, 100, 121>>
\* "title"
TxtTitle == <<116, 105, 116, 108, 101>>
\* "tags"
TxtTags == <<116, 97, 103, 115>>
\* "new"
TxtNew == <<110, 101, 119>>
\* "old"
TxtOld == <<111, 108, 100>>
\* "body"
TxtBody == <<98, 111, 100, 121>>

\* records whose fields are those of a and those of b
Merge(a, b) ==
  [f \in DOMAIN a \cup DOMAIN b |-> IF f \in DOMAIN b THEN b[f] ELSE a[f]]

\* the choices for an optional field: left out, or one of the values
Optional(f, values) == {<<>>} \cup {[g \in {f} |-> v] : v \in values}
NoFields == <<>>

\* "a", "aa", "", ".", "("
Patterns == {<<97>>, <<97, 97>>, <<>>, <<46>>, <<40>>}
\* "", "a", "bab"
MatchReplacements == {<<>>, <<97>>, <<98, 97, 98>>}

MatchEdits ==
  {Merge(Merge(Merge(Merge(
     [op |-> "replace_match", pattern |-> pt, replacement |-> rp], lit), occ), cb), tb) :
     pt \in Patterns, rp \in MatchReplacements,
     lit \in Optional("literal", {FALSE}),
     occ \in Optional("occurrence", {All, Nth(2), Nth(9), [kind |-> "str"]}),
     cb \in Optional("codeBlocks", {"include"}),
     tb \in Optional("tables", {"include"})}

HeadingPaths ==
  {<<TxtA>>, <<TxtA, TxtB>>, <<TxtA, TxtD>>, <<TxtIntro>>, <<TxtIntroLower>>, <<TxtZ>>}

\* the sections addressed by id: "# A" and "# Intro" on line 0
SectionIds == {create_section_id(<<TxtA>>, 0), create_section_id(<<TxtIntro>>, 0)}

\* how an edit names its section: headingPath, sectionId, or neither
SectionAddresses ==
  {[headingPath |-> hp] : hp \in HeadingPaths}
    \cup {[sectionId |-> id] : id \in SectionIds}
    \cup {NoFields}

SectionMarkdowns == {TxtNewBody, TxtNewHeading, TxtBlankThenHeading}

SectionEdits ==
  {Merge(Merge([op |-> "replace_section", markdown |-> md], ad), ks) :
     md \in SectionMarkdowns, ad \in SectionAddresses,
     ks \in Optional("keepSubsections", BOOLEAN)}
  \cup {Merge([op |-> "replace_section"], ad) : ad \in SectionAddresses}

InsertEdits ==
  {Merge(Merge(Merge([op |-> "insert_after_heading", markdown |-> md], ad), ps), bl) :
     md \in {TxtNewBody, TxtNewHeading}, ad \in SectionAddresses,
     ps \in Optional("position", {"afterHeading", "start", "end", "top"}),
     bl \in Optional("ensureBlankLine", BOOLEAN)}

Str(t) == [kind |-> "str", text |-> t]
List(ts) == [kind |-> "list", items |-> ts]

\* {}, {title: new, tags: [a, b]}, {tags: [a, b], title: new}, {body: old}
SetValues ==
  {<<>>,
   <<[key |-> TxtTitle, value |-> Str(TxtNew)], [key |-> TxtTags, value |-> List(<<<<97>>, <<98>>>>)]>>,
   <<[key |-> TxtTags, value |-> List(<<<<97>>, <<98>>>>)], [key |-> TxtTitle, value |-> Str(TxtNew)]>>,
   <<[key |-> TxtBody, value |-> Str(TxtOld)]>>}

FrontMatterEdits ==
  {Merge(Merge([op |-> "update_front_matter"], st), rm) :
     st \in Optional("set", SetValues),
     rm \in Optional("remove", {<<>>, <<TxtTitle>>, <<TxtTags>>})}

\* edits with an unknown op, with a required field left out, or with a scope
\* kind that is not one of the two kinds
InvalidEdits ==
  {[op |-> "rename_heading"],
   [op |-> "replace_range", replacement |-> <<97>>],
   [op |-> "replace_range", range |-> [sl |-> 0, sc |-> 0, el |-> 0, ec |-> 0]],
   [op |-> "replace_match", replacement |-> <<97>>],
   [op |-> "replace_match", pattern |-> <<97>>],
   [op |-> "replace_match", pattern |-> <<97>>, replacement |-> <<98>>,
    scope |-> [kind |-> "paragraph"]]}

DocEdits ==
  MatchEdits \cup SectionEdits \cup InsertEdits \cup FrontMatterEdits \cup InvalidEdits

\* the calls drawn on the document f: one edit, with the hash of f
DocRequests(f) ==
  {Request(sha256(f), <<e>>, a, d, [format_mode |-> "none", formatter |-> "ok"], TRUE, TRUE) :
     e \in DocEdits, a \in BOOLEAN, d \in BOOLEAN}

InitDoc ==
  /\ file \in DocFiles
  /\ pc = "idle"
  /\ known = NoSha
  /\ pend = NoCall
  /\ ret = NoCall
  /\ editor = NoEditor
  /\ edit_ret = NoEdit

DocApply == ret = NoCall /\ ApplyBegin(DocRequests(file))

NextDoc == DocApply \/ ApplyWrite

SpecDoc == InitDoc /\ [][NextDoc]_vars

\* the call made, its edit, and the lines before and after
DocApplied == ret.op = "apply" /\ Len(ret.req.edits) = 1
TheEdit == ret.req.edits[1]
LinesBefore == load(ret.before).lines

---------------------------------------------------------------------------
(* Claims about one structured edit. *)

\* the edit of the call was applied
EditSucceeded == DocApplied /\ ret.res.ok /\ ret.res.statuses = <<"ok">>

\* the matches reported on the 1-based line n, in the order reported
MatchesOn(n) == SelectSeq(ret.res.matches, LAMBDA m : m.line = n)

\* the line with the text of each match replaced, built from left to right:
\* the text up to the match, the replacement, and so on from the end of the
\* match
RECURSIVE RebuiltFrom(_, _, _, _)
RebuiltFrom(line, pos, spans, replacement) ==
  IF spans = <<>> THEN SubSeq(line, pos + 1, Len(line))
  ELSE SubSeq(line, pos + 1, Head(spans).col - 1)
       \o replacement
       \o RebuiltFrom(line, Head(spans).col - 1 + Len(Head(spans).text),
                      Tail(spans), replacement)

ReplacedAll ==
  /\ EditSucceeded
  /\ TheEdit.op = "replace_match"
  /\ Get(TheEdit, "occurrence", All) = All

\* C12: after a successful replace_match with occurrence="all" every line
\* is its original text with each match replaced by the replacement string,
\* taken literally, and every character outside the matches kept; this holds
\* with several matches on a line and a replacement of another length.
C12_AllMatchesReplacedInPlace ==
  ReplacedAll =>
    /\ Len(ret.res.buffer) = Len(LinesBefore)
    /\ \A n \in 1..Len(LinesBefore) :
         ret.res.buffer[n]
           = RebuiltFrom(LinesBefore[n], 0, MatchesOn(n), TheEdit.replacement)
    /\ \A k \in 1..Len(ret.res.matches) :
         LET m == ret.res.matches[k]
         IN /\ m.line \in 1..Len(LinesBefore)
            /\ m.text = SubSeq(LinesBefore[m.line], m.col, m.col - 1 + Len(m.text))
            /\ Get(TheEdit, "literal", TRUE) => m.text = TheEdit.pattern

\* "aa a" with "a" replaced by "bab": three matches on one line
C12_Witness ==
  /\ ReplacedAll
  /\ ret.before = DocMatches
  /\ TheEdit.pattern = <<97>>
  /\ TheEdit.replacement = <<98, 97, 98>>
  /\ Len(MatchesOn(1)) = 3
  /\ ret.res.buffer[1] = <<98, 97, 98, 98, 97, 98, 32, 98, 97, 98>>

\* the 1-based line n of the lines is a fence line
IsFenceLine(lines, n) == fence_open(lines[n]) # 0

\* the last element of the buffer of a file that ends with a line end: the
\* empty text after it, which is no line of the document
IsAfterLastLine(lines, n) == n = Len(lines) /\ n > 1 /\ lines[n] = <<>>

\* the 1-based line n lies in a fenced code block, its fence lines included:
\* it is a fence line, or an odd number of fence lines precede it (the
\* documents drawn use one kind of fence each)
InFencedBlock(lines, n) ==
  /\ ~IsAfterLastLine(lines, n)
  /\ \/ IsFenceLine(lines, n)
     \/ Cardinality({k \in 1..n - 1 : IsFenceLine(lines, k)}) % 2 = 1

IsPipeLine(lines, n) == n \in 1..Len(lines) /\ StartsWith(lines[n], <<124>>)

\* a delimiter row: "|", "-" and ":" only, with a "-"
IsDelimiterRow(line) ==
  /\ \A k \in 1..Len(line) : line[k] \in {124, 45, 58, 32}
  /\ \E k \in 1..Len(line) : line[k] = 45

\* the 1-based line n lies in a GFM table: it is in a run of lines starting
\* with "|" whose second line is a delimiter row
InTable(lines, n) ==
  /\ IsPipeLine(lines, n)
  /\ \E s \in 1..n :
       /\ \A k \in s..n : IsPipeLine(lines, k)
       /\ ~IsPipeLine(lines, s - 1)
       /\ IsPipeLine(lines, s + 1)
       /\ IsDelimiterRow(lines[s + 1])

\* the 1-based line n is in a context the edit's policies exclude
Excluded(n) ==
  \/ Get(TheEdit, "codeBlocks", "exclude") = "exclude" /\ InFencedBlock(LinesBefore, n)
  \/ Get(TheEdit, "tables", "exclude") = "exclude" /\ InTable(LinesBefore, n)

\* C13: a replace_match reports no match on and makes no change to a line
\* inside a fenced code block or a table when the policy for that context is
\* "exclude", the default, fence lines included; the matches of the other
\* lines are replaced and reported with their 1-based line numbers.
C13_ExcludedContextsUntouched ==
  ReplacedAll =>
    \A n \in 1..Len(LinesBefore) :
      IF Excluded(n)
      THEN /\ MatchesOn(n) = <<>>
           /\ ret.res.buffer[n] = LinesBefore[n]
      ELSE /\ Len(MatchesOn(n))
                = Len(finditer(LinesBefore[n], 0, TheEdit.pattern,
                               Get(TheEdit, "literal", TRUE), {}))
           /\ ret.res.buffer[n]
                = RebuiltFrom(LinesBefore[n], 0, MatchesOn(n), TheEdit.replacement)

\* the sections of the document of the call
SectionsBefore == parse_structure(load(ret.before).content, LinesBefore).sections

\* the edit addresses its section by a headingPath that is the path of two
\* or more sections of the document
AmbiguousCall ==
  /\ DocApplied
  /\ TheEdit.op \in {"replace_section", "insert_after_heading"}
  /\ Has(TheEdit, "markdown") /\ Has(TheEdit, "headingPath") /\ ~Has(TheEdit, "sectionId")
  /\ Cardinality({k \in 1..Len(SectionsBefore) :
                    SectionsBefore[k].heading_path = TheEdit.headingPath}) >= 2

\* C14 as claimed: when the headingPath of an edit resolves to two or more
\* sections, apply returns ok=false with errorCode AMBIGUOUS_HEADING and the
\* file is unchanged.
C14_AmbiguousHeadingErrorCode ==
  AmbiguousCall =>
    /\ ~ret.res.ok
    /\ ret.res.errorCode = "AMBIGUOUS_HEADING"
    /\ file = ret.before

\* C14 as amended: the edit fails with the diagnostic AMBIGUOUS_HEADING and
\* changes nothing; in atomic mode apply returns ok=false with errorCode
\* CONFLICTING_EDITS and the file is unchanged, in non-atomic mode apply
\* returns ok=true with the edit not applied.
C14_AmbiguousHeadingDiagnosed ==
  AmbiguousCall =>
    /\ ret.res.diagnostics = <<"AMBIGUOUS_HEADING">>
    /\ IF ret.req.atomic
       THEN /\ ~ret.res.ok
            /\ ret.res.errorCode = "CONFLICTING_EDITS"
            /\ file = ret.before
       ELSE /\ ret.res.ok
            /\ ret.res.statuses = <<"fail">>
            /\ ret.res.editsApplied = 0
            /\ ret.res.buffer = LinesBefore
            /\ file = ret.before

\* replace_section on ["A","B"] in "# A\n## B\n# A\n## B\n", atomic
C14_Witness ==
  /\ AmbiguousCall
  /\ ret.before = DocAmbiguous
  /\ TheEdit.op = "replace_section"
  /\ TheEdit.headingPath = <<TxtA, TxtB>>
  /\ ret.req.atomic /\ ~ret.req.dry_run
  /\ ret.res.errorCode = "CONFLICTING_EDITS"

\* the editor as md_apply creates it for the document of the call
EditorBefore == MarkdownEditor(load(ret.before))

\* a replace_section that was applied, and the section it addressed
SectionReplaced == EditSucceeded /\ TheEdit.op = "replace_section"
TheSection == edit_section(EditorBefore, TheEdit).section
NewLines == Split(TheEdit.markdown, <<LF>>)

\* the first non-empty line of the lines, or the empty text
FirstNonEmpty(lines) ==
  IF \E k \in 1..Len(lines) : Strip(lines[k]) # <<>>
  THEN lines[CHOOSE k \in 1..Len(lines) :
               /\ Strip(lines[k]) # <<>>
               /\ \A j \in 1..k - 1 : Strip(lines[j]) = <<>>]
  ELSE <<>>

\* C15: replace_section decides on the first non-empty line of markdown: if
\* its trimmed form begins with "#", markdown replaces the lines from the
\* heading line to content_end, otherwise the heading line is kept and
\* markdown replaces the lines after it up to content_end; also when
\* markdown starts with empty lines.
C15_HeadingDecidedByFirstNonEmptyLine ==
  SectionReplaced =>
    LET last == content_end(EditorBefore, TheEdit, TheSection)
        first == IF StartsWith(Strip(FirstNonEmpty(NewLines)), <<35>>)
                 THEN TheSection.heading_line
                 ELSE TheSection.heading_line + 1
    IN ret.res.buffer
         = SubSeq(LinesBefore, 1, first) \o NewLines
           \o SubSeq(LinesBefore, last + 2, Len(LinesBefore))

\* the sections inside the section: their lines lie within its lines
Children(section) ==
  {s \in {SectionsBefore[k] : k \in 1..Len(SectionsBefore)} :
     s.start_line > section.start_line /\ s.start_line <= section.end_line}

\* the lines of the document from the first child of the section on
FromFirstChild(section) ==
  LET starts == {s.start_line : s \in Children(section)}
      start == CHOOSE n \in starts : \A m \in starts : n <= m
  IN SubSeq(LinesBefore, start + 1, Len(LinesBefore))

IsSuffix(s, t) ==
  Len(s) <= Len(t) /\ SubSeq(t, Len(t) - Len(s) + 1, Len(t)) = s

\* "# Intro\nnew body\n## Sub\nx\n"
IntroNewBody == <<35, 32, 73, 110, 116, 114, 111, 10, 110, 101, 119, 32, 98, 111, 100, 121, 10, 35, 35, 32, 83, 117, 98, 10, 120, 10>>
\* "# Introduction\nnew body\n## Sub\nx\n"
IntroNewHeading == <<35, 32, 73, 110, 116, 114, 111, 100, 117, 99, 116, 105, 111, 110, 10, 110, 101, 119, 32, 98, 111, 100, 121, 10, 35, 35, 32, 83, 117, 98, 10, 120, 10>>

\* a replace_section applied with keepSubsections left at its default
DefaultSectionReplaced ==
  SectionReplaced /\ ~Has(TheEdit, "keepSubsections")

\* C16: replace_section with the default keepSubsections on a section with a
\* child section leaves the child's heading and content in the file; on
\* "# Intro\nold\n## Sub\nx\n", section ["Intro"] replaced by "new body"
\* gives "# Intro\nnew body\n## Sub\nx\n" and by "# Introduction\nnew body"
\* gives "# Introduction\nnew body\n## Sub\nx\n".
C16_DefaultKeepsChildSections ==
  (DefaultSectionReplaced /\ Children(TheSection) # {}) =>
    /\ IsSuffix(FromFirstChild(TheSection), ret.res.buffer)
    /\ (ret.before = DocIntro /\ TheEdit.markdown = TxtNewBody)
         => ret.res.new_content = IntroNewBody
    /\ (ret.before = DocIntro /\ TheEdit.markdown = TxtNewHeading)
         => ret.res.new_content = IntroNewHeading

\* the start_line of the first child of the section in document order
FirstChildStart(section) ==
  LET starts == {s.start_line : s \in Children(section)}
  IN CHOOSE n \in starts : \A m \in starts : n <= m

\* C17: for replace_section with keepSubsections=true on a section with
\* subsections, content_end is one less than the start_line of the section's
\* first subsection in document order, whether the section was addressed by
\* headingPath or by sectionId and whatever the depth of the subsections;
\* without subsections or with keepSubsections=false it is the end_line.
C17_ContentEndBeforeFirstSubsection ==
  SectionReplaced =>
    content_end(EditorBefore, TheEdit, TheSection)
      = IF Get(TheEdit, "keepSubsections", FALSE) /\ Children(TheSection) # {}
        THEN FirstChildStart(TheSection) - 1
        ELSE TheSection.end_line

\* an insert_after_heading that was applied
Inserted == EditSucceeded /\ TheEdit.op = "insert_after_heading"

\* the index the claim inserts at
InsertPoint ==
  IF Get(TheEdit, "position", "afterHeading") = "end"
  THEN TheSection.end_line + 1
  ELSE TheSection.heading_line + 1

\* the line at the 0-based index p exists and is not blank
NonBlankAt(p) ==
  /\ p < Len(LinesBefore)
  /\ \E k \in 1..Len(LinesBefore[p + 1]) : ~IsSpace(LinesBefore[p + 1][k])

\* the empty line added after the inserted lines, or nothing
ExtraLine ==
  IF Get(TheEdit, "ensureBlankLine", TRUE) /\ NonBlankAt(InsertPoint)
  THEN <<<<>>>> ELSE <<>>

\* C18: a successful insert_after_heading produces
\* buffer[:p] + lines(markdown) + extra + buffer[p:], where p is
\* heading_line + 1 for afterHeading and start and end_line + 1 for end, and
\* extra is one empty line exactly when ensureBlankLine is true and the line
\* at index p exists and is non-blank; no existing line is removed or altered.
C18_InsertAfterHeading ==
  Inserted =>
    /\ Get(TheEdit, "position", "afterHeading") \in {"afterHeading", "start", "end"}
    /\ ret.res.buffer
         = SubSeq(LinesBefore, 1, InsertPoint)
           \o NewLines \o ExtraLine
           \o SubSeq(LinesBefore, InsertPoint + 1, Len(LinesBefore))
    /\ Len(ret.res.buffer) = Len(LinesBefore) + Len(NewLines) + Len(ExtraLine)

\* an insertion after the heading of "# A\n\nx\n## B\n", where the next line
\* is blank and no empty line is added
C18_Witness ==
  /\ Inserted
  /\ ret.before = DocBlank
  /\ Has(TheEdit, "headingPath") /\ TheEdit.headingPath = <<TxtA>>
  /\ ~Has(TheEdit, "position") /\ ~Has(TheEdit, "ensureBlankLine")
  /\ TheEdit.markdown = TxtNewBody
  /\ ExtraLine = <<>>
  /\ ret.res.buffer = <<<<35, 32, 65>>, TxtNewBody, <<>>, <<120>>, <<35, 35, 32, 66>>, <<>>>>

\* an update_front_matter applied to a document with a front matter block
FrontMatterUpdated ==
  /\ EditSucceeded
  /\ TheEdit.op = "update_front_matter"
  /\ EditorBefore.doc.front_matter_lines # <<>>

\* the mapping after the upserts and the removals: existing keys in their
\* order with the updated values, then the new keys
Upserted ==
  fm_remove(fm_set(EditorBefore.doc.front_matter, Get(TheEdit, "set", <<>>)),
            Get(TheEdit, "remove", <<>>))

\* the block-style YAML lines of the mapping, its keys in the order given
LinesInOrder(fm) ==
  IF fm = <<>> THEN <<<<123, 125>>>>
  ELSE concat_lines([k \in 1..Len(fm) |-> item_lines(fm[k])])

\* "---\ntitle: new\ntags:\n- a\n- b\n---\nbody\n"
FrontMatterNew == <<45, 45, 45, 10, 116, 105, 116, 108, 101, 58, 32, 110, 101, 119, 10, 116, 97, 103, 115, 58, 10, 45, 32, 97, 10, 45, 32, 98, 10, 45, 45, 45, 10, 98, 111, 100, 121, 10>>

\* C19: update_front_matter on a document with a front matter block replaces
\* the lines from the opening to the closing "---" with the upserted mapping
\* and leaves the body unchanged; existing keys keep their order with updated
\* values, new keys follow them, removed keys are absent: on
\* "---\ntitle: old\n---\nbody\n" with set {title: "new", tags: ["a","b"]}
\* the block is "---\ntitle: new\ntags:\n- a\n- b\n---" followed by "body".
C19_FrontMatterKeepsKeyOrder ==
  FrontMatterUpdated =>
    LET closing == EditorBefore.doc.front_matter_lines[2]
    IN /\ ret.res.buffer
            = <<<<45, 45, 45>>>> \o LinesInOrder(Upserted) \o <<<<45, 45, 45>>>>
              \o SubSeq(LinesBefore, closing + 2, Len(LinesBefore))
       /\ ( /\ ret.before = DocFrontMatter
            /\ Get(TheEdit, "set", <<>>)
                 = <<[key |-> TxtTitle, value |-> Str(TxtNew)],
                     [key |-> TxtTags, value |-> List(<<<<97>>, <<98>>>>)]>>
            /\ Get(TheEdit, "remove", <<>>) = <<>> )
            => ret.res.new_content = FrontMatterNew

\* a replace_match with literal=false whose pattern does not compile
BadRegexCall ==
  /\ DocApplied
  /\ TheEdit.op = "replace_match"
  /\ Has(TheEdit, "literal") /\ ~TheEdit.literal
  /\ ~re_compiles(TheEdit.pattern, FALSE)

\* C20: a replace_match with literal=false whose pattern fails to compile
\* fails with the error code INVALID_REGEX and leaves the buffer unchanged.
C20_InvalidRegexCode ==
  BadRegexCall =>
    /\ ret.res.diagnostics = <<"INVALID_REGEX">>
    /\ ret.res.ok => (ret.res.statuses = <<"fail">> /\ ret.res.buffer = LinesBefore)
    /\ file = ret.before

----------------------------------------------------------------------------
(* Claims about invalid edits. *)

\* the op is one of the five operations
KnownOp(e) ==
  e.op \in {"replace_range", "replace_match", "replace_section",
            "insert_after_heading", "update_front_matter"}

\* a required field of the op is left out
MissingField(e) ==
  \/ e.op = "replace_range" /\ (~Has(e, "range") \/ ~Has(e, "replacement"))
  \/ e.op = "replace_match" /\ (~Has(e, "pattern") \/ ~Has(e, "replacement"))
  \/ e.op \in {"replace_section", "insert_after_heading"} /\ ~Has(e, "markdown")

\* position, scope kind or occurrence has a value that is not of its enum,
\* in an edit that is complete and addresses one section of the document
InvalidEnum(e) ==
  /\ KnownOp(e) /\ ~MissingField(e)
  /\ \/ /\ e.op = "insert_after_heading"
        /\ Has(e, "position")
        /\ e.position \notin {"afterHeading", "start", "end"}
        /\ edit_section(EditorBefore, e).found
     \/ /\ e.op = "replace_match"
        /\ Has(e, "scope")
        /\ e.scope.kind \notin {"whole_document", "section"}
     \/ /\ e.op = "replace_match"
        /\ Has(e, "occurrence")
        /\ e.occurrence.kind \notin {"all", "int"}

InvalidCall ==
  /\ DocApplied
  /\ ~KnownOp(TheEdit) \/ MissingField(TheEdit) \/ InvalidEnum(TheEdit)

\* C21: an edit with an unknown op, an edit missing a required field of its
\* op and an edit with an invalid enum value (position, scope kind,
\* occurrence) each fail with the code INVALID_OPERATION as a recorded
\* diagnostic, with the buffer unchanged.
C21_InvalidEditsDiagnosed ==
  InvalidCall =>
    /\ ret.res.diagnostics = <<"INVALID_OPERATION">>
    /\ ret.res.ok => (ret.res.statuses = <<"fail">> /\ ret.res.buffer = LinesBefore)
    /\ file = ret.before

----------------------------------------------------------------------------
(* One md_apply call with a batch of two edits on a drawn document. *)

\* "# A\nx\n```\na\n```\n"
DocHeadFence == <<35, 32, 65, 10, 120, 10, 96, 96, 96, 10, 97, 10, 96, 96, 96, 10>>
\* "```"
TxtFence == <<96, 96, 96>>

BatchFiles == {DocNested, DocFenced, DocFrontMatter, DocMatches, DocHeadFence}

TagsAB == List(<<<<97>>, <<98>>>>)

BatchEdits ==
  {[op |-> "replace_section", headingPath |-> <<TxtA>>, markdown |-> TxtNewBody],
   [op |-> "replace_section", headingPath |-> <<TxtA, TxtD>>, markdown |-> TxtNewBody],
   [op |-> "replace_section", headingPath |-> <<TxtA, TxtD>>, markdown |-> TxtNewHeading],
   [op |-> "insert_after_heading", headingPath |-> <<TxtA>>, markdown |-> TxtNewBody],
   [op |-> "insert_after_heading", headingPath |-> <<TxtA>>, markdown |-> TxtFence],
   [op |-> "insert_after_heading", headingPath |-> <<TxtA, TxtD>>, markdown |-> TxtNewBody,
    position |-> "end"],
   [op |-> "replace_match", pattern |-> <<97>>, replacement |-> <<98, 97, 98>>],
   [op |-> "replace_match", pattern |-> <<120>>, replacement |-> <<98, 97, 98>>,
    scope |-> [kind |-> "section", headingPath |-> <<TxtA, TxtD>>]],
   EditJoin,
   [op |-> "update_front_matter",
    set |-> <<[key |-> TxtTitle, value |-> Str(TxtNew)]>>],
   [op |-> "update_front_matter",
    set |-> <<[key |-> TxtTags, value |-> TagsAB]>>],
   [op |-> "update_front_matter",
    set |-> <<[key |-> TxtTitle, value |-> Str(TxtOld)], [key |-> TxtBody, value |-> Str(TxtOld)]>>,
    remove |-> <<TxtTags>>]}

\* the calls drawn on the document f: two edits, with the hash of f
BatchRequests(f) ==
  {Request(sha256(f), <<e1, e2>>, a, d, [format_mode |-> "none", formatter |-> "ok"], TRUE, TRUE) :
     e1 \in BatchEdits, e2 \in BatchEdits, a \in BOOLEAN, d \in BOOLEAN}

InitBatch ==
  /\ file \in BatchFiles
  /\ pc = "idle"
  /\ known = NoSha
  /\ pend = NoCall
  /\ ret = NoCall
  /\ editor = NoEditor
  /\ edit_ret = NoEdit

BatchApply == ret = NoCall /\ ApplyBegin(BatchRequests(file))

NextBatch == BatchApply \/ ApplyWrite

SpecBatch == InitBatch /\ [][NextBatch]_vars

\* the call made, its two edits, and the editor each of them ran on
BatchApplied == ret.op = "apply" /\ Len(ret.req.edits) = 2
FirstEdit == ret.req.edits[1]
SecondEdit == ret.req.edits[2]
FirstRun == apply_edit(EditorBefore, FirstEdit)
SecondRun == apply_edit(FirstRun.editor, SecondEdit)

\* the second edit was attempted: the first did not end the loop
SecondAttempted ==
  /\ BatchApplied
  /\ Len(ret.res.statuses) = 2

\* the section the edit resolves in the structural index of the batch start
StaleLookup(e) ==
  IF e.op \in {"replace_section", "insert_after_heading"} /\ Has(e, "markdown")
  THEN edit_section(EditorBefore, e)
  ELSE IF e.op = "replace_match" /\ Has(e, "scope") /\ e.scope.kind = "section"
  THEN get_section_by_path(EditorBefore.doc, e.scope.headingPath,
                           Get(e.scope, "includeSubsections", FALSE))
  ELSE [found |-> FALSE]

\* the first edit was applied and the section the second edit resolves ends
\* past the last line of the buffer the first edit left
StaleRangeCall ==
  /\ SecondAttempted
  /\ FirstRun.status = "ok"
  /\ StaleLookup(SecondEdit).found
  /\ StaleLookup(SecondEdit).section.end_line >= Len(FirstRun.editor.buffer)

\* C22: within one batch the structural index is the one computed at batch
\* start; when an earlier edit has shortened the buffer so that a later
\* edit's resolved line range lies outside the current buffer, the later
\* edit fails with an OUT_OF_RANGE diagnostic instead of raising or
\* silently splicing at the end of the buffer.
C22_StaleRangeIsOutOfRange ==
  StaleRangeCall =>
    /\ ret.res.statuses = <<"ok", "fail">>
    /\ ret.res.diagnostics = <<"OUT_OF_RANGE">>

\* the call succeeded with content whose code fences do not balance
UnbalancedResult ==
  /\ BatchApplied
  /\ ret.res.ok
  /\ validate_fences(ret.res.buffer) # <<>>

\* C23: when the content produced by a batch of edits has unbalanced code
\* fences, apply reports MARKDOWN_BROKEN; apply never writes such content
\* while returning ok=true without a diagnostic.
C23_BrokenMarkdownReported ==
  /\ UnbalancedResult =>
       \E k \in 1..Len(ret.res.diagnostics) : ret.res.diagnostics[k] = "MARKDOWN_BROKEN"
  /\ ~(UnbalancedResult /\ ret.res.write /\ file = ret.res.new_bytes
       /\ ret.res.diagnostics = <<>>)

----------------------------------------------------------------------------
(* md_stat and md_validate on a drawn document: the structural index and   *)
(* the fence validation.                                                   *)

\* md_stat, the fields of the structural index
md_stat_index(raw_bytes) ==
  LET doc == load(raw_bytes)
  IN IF ~doc.ok
     THEN [ok |-> FALSE, errorCode |-> "IO_ERROR", contentSha256 |-> NoSha]
     ELSE LET index == parse_structure(doc.content, doc.lines)
          IN [ok |-> TRUE, errorCode |-> "", contentSha256 |-> doc.sha256,
              lineCount |-> Len(doc.lines),
              sections |-> index.sections,
              codeBlocks |-> index.code_blocks,
              tables |-> index.tables]

StatIndex ==
  /\ pc = "idle"
  /\ LET res == md_stat_index(file)
     IN /\ ret' = [op |-> "stat", res |-> res, before |-> file]
        /\ known' = IF res.ok THEN res.contentSha256 ELSE known
  /\ UNCHANGED <<file, pc, pend, editor, edit_ret>>

\* "# A", "## B", "### C", "x", "```", "~~~"
ParseLines ==
  {<<35, 32, 65>>, <<35, 35, 32, 66>>, <<35, 35, 35, 32, 67>>, <<120>>,
   <<96, 96, 96>>, <<126, 126, 126>>}

\* "# A\n|a|\n|-|\n|a|\n"
DocTableUnderA == <<35, 32, 65, 10, 124, 97, 124, 10, 124, 45, 124, 10, 124, 97, 124, 10>>
\* "# A\n## B\n|a|\n|-|\n|a|\n"
DocTableUnderB == <<35, 32, 65, 10, 35, 35, 32, 66, 10, 124, 97, 124, 10, 124, 45, 124, 10, 124, 97, 124, 10>>

\* the documents of one to MaxDocLines of the lines, each line ended by
\* "\n", and the documents with a table
ParseFiles ==
  {Join(ls, <<LF>>) \o <<LF>> : ls \in SeqsUpTo(ParseLines, MaxDocLines) \ {<<>>}}
    \cup {DocTable, DocTableUnderA, DocTableUnderB}

InitParse ==
  /\ file \in ParseFiles
  /\ pc = "idle"
  /\ known = NoSha
  /\ pend = NoCall
  /\ ret = NoCall
  /\ editor = NoEditor
  /\ edit_ret = NoEdit

NextParse == StatIndex \/ Validate

SpecParse == InitParse /\ [][NextParse]_vars

\* stat has returned the structural index of the file
Indexed == ret.op = "stat" /\ ret.res.ok
TheSections == ret.res.sections

\* C24: the section list produced by the parser and returned by stat is in
\* document order: of any two sections, the one with the smaller
\* heading_line comes earlier in the list, for every nesting of headings.
C24_SectionsInDocumentOrder ==
  Indexed =>
    \A i, j \in 1..Len(TheSections) :
      TheSections[i].heading_line < TheSections[j].heading_line => i < j

\* the headings of the document, in document order: level, text and line
TheHeadings == md_parse(load(ret.before).content).headings

\* the index of the heading that ends the k-th heading: the next heading of
\* an equal or shallower level, or 0
NextShallower(k) ==
  LET later == {j \in k + 1..Len(TheHeadings) : TheHeadings[j].level <= TheHeadings[k].level}
  IN IF later = {} THEN 0 ELSE CHOOSE j \in later : \A i \in later : j <= i

\* the index of the heading the k-th heading lies under: the last heading
\* before it of a shallower level, or 0
Parent(k) ==
  LET above == {j \in 1..k - 1 : TheHeadings[j].level < TheHeadings[k].level}
  IN IF above = {} THEN 0 ELSE CHOOSE j \in above : \A i \in above : i <= j

\* the texts of the headings on the stack when the k-th heading is pushed,
\* followed by its own
RECURSIVE PathOf(_)
PathOf(k) ==
  IF k = 0 THEN <<>> ELSE Append(PathOf(Parent(k)), TheHeadings[k].text)

\* the section the claim gives the k-th heading
Covers(s, line) == s.start_line <= line /\ line <= s.end_line
Within(s, t) == t.start_line <= s.start_line /\ s.end_line <= t.end_line
Disjoint(s, t) == s.end_line < t.start_line \/ t.end_line < s.start_line

SectionOf(k) ==
  {i \in 1..Len(TheSections) : TheSections[i].heading_line = TheHeadings[k].line}

\* C25: for every sequence of heading levels the heading-stack algorithm
\* emits exactly one section per heading, whose end_line is one less than the
\* line of the next heading of equal or shallower level (or the last line
\* index) and whose heading_path is the texts of the headings on the stack
\* followed by its own; any two sections are disjoint or nested, and at any
\* line the section of the deepest level among those that contain the line
\* is the innermost one.
C25_HeadingStackSections ==
  Indexed =>
    /\ Len(TheSections) = Len(TheHeadings)
    /\ \A k \in 1..Len(TheHeadings) :
         /\ Cardinality(SectionOf(k)) = 1
         /\ \A i \in SectionOf(k) :
              /\ TheSections[i].start_line = TheHeadings[k].line
              /\ TheSections[i].level = TheHeadings[k].level
              /\ TheSections[i].end_line
                   = IF NextShallower(k) = 0 THEN ret.res.lineCount - 1
                     ELSE TheHeadings[NextShallower(k)].line - 1
              /\ TheSections[i].heading_path = PathOf(k)
    /\ \A i, j \in 1..Len(TheSections) :
         \/ Disjoint(TheSections[i], TheSections[j])
         \/ Within(TheSections[i], TheSections[j])
         \/ Within(TheSections[j], TheSections[i])
    /\ \A line \in 0..ret.res.lineCount - 1 :
         \A i, j \in 1..Len(TheSections) :
           ( /\ Covers(TheSections[i], line) /\ Covers(TheSections[j], line)
             /\ \A m \in 1..Len(TheSections) :
                  Covers(TheSections[m], line) => TheSections[m].level <= TheSections[i].level )
           => Within(TheSections[i], TheSections[j])

\* "# A\n## B\n### C\n## B\n": a section nested two deep, ended by a heading
\* of the level of its parent
C25_Witness ==
  /\ Indexed
  /\ ret.before = <<35, 32, 65, 10, 35, 35, 32, 66, 10, 35, 35, 35, 32, 67, 10, 35, 35, 32, 66, 10>>
  /\ Len(TheSections) = 4
  /\ \E i \in 1..4 :
       /\ TheSections[i].heading_path = <<TxtA, TxtB, TxtC>>
       /\ TheSections[i].start_line = 2 /\ TheSections[i].end_line = 2
  /\ \E i \in 1..4 :
       /\ TheSections[i].heading_path = <<TxtA, TxtB>>
       /\ TheSections[i].start_line = 1 /\ TheSections[i].end_line = 2
  /\ \E i \in 1..4 :
       /\ TheSections[i].heading_path = <<TxtA>>
       /\ TheSections[i].start_line = 0 /\ TheSections[i].end_line = 4

\* the 0-based lines on which a table of the document starts
TableStarts ==
  {n - 1 : n \in {m \in 1..Len(LinesBefore) :
                    InTable(LinesBefore, m) /\ ~IsPipeLine(LinesBefore, m - 1)}}

\* the heading path of the innermost section enclosing the line: the one of
\* the deepest level; the empty path before every heading
InnermostPath(line) ==
  LET around == {i \in 1..Len(TheSections) : Covers(TheSections[i], line)}
  IN IF around = {} THEN <<>>
     ELSE TheSections[CHOOSE i \in around :
                        \A j \in around : TheSections[j].level <= TheSections[i].level].heading_path

\* C26: for every table that lies under at least one heading, the table's
\* section field is the heading path of the innermost section enclosing the
\* table's start line; it is absent only for a table that precedes every
\* heading.
C26_TableSectionIsInnermost ==
  Indexed =>
    \A start \in TableStarts :
      \E k \in 1..Len(ret.res.tables) :
        /\ ret.res.tables[k].start_line = start
        /\ ret.res.tables[k].section = InnermostPath(start)

\* validate has returned the diagnostics of the file
Validated == ret.op = "validate" /\ ret.res.ok

\* the number of lines of the file whose trimmed form begins with three of
\* the fence character
FenceLines(char) ==
  LET lines == load(file).lines
  IN Cardinality({n \in 1..Len(lines) : StartsWith(Strip(lines[n]), <<char, char, char>>)})

\* the fences left open at the end of the file when the fence lines of each
\* character alternate between opening and closing among themselves
Unclosed == (FenceLines(96) % 2) + (FenceLines(126) % 2)

\* C27: fence validation pairs fence lines per fence character,
\* independently of how backtick and tilde fence lines interleave: a
\* document in which each kind occurs an even number of times gets no
\* diagnostic, and at the end of the file one diagnostic is produced per
\* unclosed fence.
C27_FencesPairedPerCharacter ==
  Validated => Len(ret.res.diagnostics) = Unclosed

----------------------------------------------------------------------------
(* normalize_heading on a drawn heading text. *)

\* "A", "a", "É", U+0130, U+0307, " ", tab, "-", "`", "*", "_", "!"
HeadingChars == {65, 97, 201, 304, 775, 32, 9, 45, 96, 42, 95, 33}

HeadingTexts == SeqsUpTo(HeadingChars, MaxHeadingLen)

InitNorm ==
  /\ file = <<>>
  /\ pc = "idle"
  /\ known = NoSha
  /\ pend \in {[op |-> "heading", text |-> s] : s \in HeadingTexts}
  /\ ret = NoCall
  /\ editor = NoEditor
  /\ edit_ret = NoEdit

Normalize ==
  /\ pend.op = "heading"
  /\ ret = NoCall
  /\ ret' = [op |-> "normalize", text |-> pend.text, out |-> normalize_heading(pend.text)]
  /\ UNCHANGED <<file, pc, known, pend, editor, edit_ret>>

NextNorm == Normalize

SpecNorm == InitNorm /\ [][NextNorm]_vars

Normalized == ret.op = "normalize"

\* C28: heading canonicalization is idempotent: for every heading text s,
\* normalize_heading(normalize_heading(s)) = normalize_heading(s).
C28_NormalizeIdempotent ==
  Normalized => normalize_heading(ret.out) = ret.out

\* both edits of the batch are update_front_matter edits that were applied
FrontMatterTwice ==
  /\ BatchApplied
  /\ ret.res.ok
  /\ ret.res.statuses = <<"ok", "ok">>
  /\ FirstEdit.op = "update_front_matter"
  /\ SecondEdit.op = "update_front_matter"

\* the mapping after the two edits, the later edit winning on a shared key
ComposedMapping ==
  LET first == fm_remove(fm_set(EditorBefore.doc.front_matter, Get(FirstEdit, "set", <<>>)),
                         Get(FirstEdit, "remove", <<>>))
  IN fm_remove(fm_set(first, Get(SecondEdit, "set", <<>>)), Get(SecondEdit, "remove", <<>>))

Items(fm) == {fm[k] : k \in 1..Len(fm)}

\* the body of the document of the call: the lines below its front matter
\* block, or all its lines
BodyBefore ==
  IF EditorBefore.doc.front_matter_lines = <<>> THEN LinesBefore
  ELSE SubSeq(LinesBefore, EditorBefore.doc.front_matter_lines[2] + 2, Len(LinesBefore))

\* C29: two successful update_front_matter edits in one batch compose: the
\* document then starts with exactly one front matter block, which contains
\* the keys set by the first edit and those set by the second (the later
\* winning on a shared key, removed keys absent), and the body below the
\* block is the original body, whether or not the document had front matter
\* at batch start.
C29_FrontMatterEditsCompose ==
  FrontMatterTwice =>
    LET after == extract_front_matter(ret.res.new_content, ret.res.buffer)
    IN /\ after.front_matter_lines # <<>>
       /\ Items(after.front_matter) = Items(ComposedMapping)
       /\ LET below == SubSeq(ret.res.buffer, after.front_matter_lines[2] + 2,
                              Len(ret.res.buffer))
          IN below = BodyBefore \/ below = <<<<>>>> \o BodyBefore

\* the second edit is a replace_match with codeBlocks="exclude" that was
\* applied after the first edit was applied
MatchAfterEdit ==
  /\ BatchApplied
  /\ ret.res.ok
  /\ ret.res.statuses = <<"ok", "ok">>
  /\ SecondEdit.op = "replace_match"
  /\ Get(SecondEdit, "codeBlocks", "exclude") = "exclude"

\* the buffer the second edit ran on
BufferBetween == FirstRun.editor.buffer

\* C30: in any batch, a replace_match with codeBlocks="exclude" never
\* changes the text of a line that is inside a fenced code block of the
\* buffer it runs on, also when an earlier edit of the batch inserted or
\* removed lines above that block.
C30_ExclusionFollowsTheBlock ==
  MatchAfterEdit =>
    /\ Len(ret.res.buffer) = Len(BufferBetween)
    /\ \A n \in 1..Len(BufferBetween) :
         InFencedBlock(BufferBetween, n) => ret.res.buffer[n] = BufferBetween[n]

===========================================================================
